---------------------------- MODULE Spec2Model ----------------------------
(***************************************************************************)
(* A model of the pops synchronisation engine: the Directory Reconciler    *)
(* (services/markdown-processor.ts), the Frontmatter Codec                 *)
(* (utils/frontmatter-parser.ts) and the batch commands                    *)
(* (commands/issue-update.ts, commands/issue-refine.ts,                    *)
(* commands/process-epics.ts), the field mapper (utils/simple-mapper.ts),  *)
(* the validator, the promotion of one issue and the snapshot fetch        *)
(* (services/jira-data-service.ts).                                        *)
(*                                                                         *)
(* Strings on which the code performs string operations (includes,         *)
(* startsWith, endsWith, regular expressions, split, join) are sequences   *)
(* of one-character strings.  A multi-line text is the sequence of its     *)
(* lines, i.e. the result of split('\n').                                  *)
(***************************************************************************)
EXTENDS Integers, Sequences, FiniteSets, TLC

VARIABLES
    \* ---- Directory Reconciler ----
    dataStructure,   \* the _data snapshot: sequence of epic groups, in Map iteration order
    filter,          \* [component, epic]: the --component / --epic arguments
    tree,            \* the mirror tree: [files: set of paths, dirs: set of paths]
    tree0,           \* the mirror tree before the first run
    pc,              \* position of the current run of processEpics
    gi,              \* index of the epic group being processed
    wi,              \* index of the next document to write in the current group
    results,         \* ProcessingResult.success of the groups processed in this run
    removedFilePaths,\* files unlinked by cleanupMisplacedFiles in this run
    removedOrphanPaths, \* paths removed by cleanupOrphanedEpicDirectories in this run
    run,             \* number of the current run (1 = first)
    interrupts,      \* number of earlier runs that were interrupted
    treeAtInterrupt, \* the mirror tree the last interrupted run left behind
    \* ---- Frontmatter Codec ----
    doc,             \* the text of a document file: the sequence of its lines
    codecOp,         \* the operation of FrontmatterParser applied last
    parsedBefore,    \* parseContent of the document before that operation
    hashBefore,      \* calculateContentHash of the document before that operation
    cycles,          \* number of operations applied to the document
    \* ---- batch commands ----
    command,         \* the command being run
    recurse,         \* its --recurse flag
    target,          \* the --target of promote-issue, "" when it was not given
    children,        \* the children of the issue: in _workspace (update, promote), in Jira (rework)
    workspaceFiles,  \* keys of the issues that have a document in _workspace
    hasWorkspaceLabel,   \* keys whose _workspace document lists the label 'workspace'
    hasReWorkspaceLabel, \* keys whose Jira issue carries the label 're-workspace'
    failing,         \* keys for which jiraClient.updateIssue throws
    bpc,             \* position of the command
    current,         \* key of the issue being processed
    queue,           \* children still to process
    outcome,         \* per issue: how its processing ended, "pending" before
    remoteWrites,    \* keys of the updates Jira accepted, in order
    exitStatus,      \* exit status of the process, None while it runs
    issueType,       \* per issue: the name of its issue type
    overwrites,      \* keys whose existing _workspace document rework-issue wrote over
    batchRun,        \* how many times the command has been started
    \* ---- SimpleMapper and extraction ----
    props,           \* the property bag of a document
    table,           \* its mapping table: sequence of <<propertyName, apiPath>>
    mappedFields,    \* the result of mapPropertiesToJira
    jiraFields,      \* the result of convertToJiraFields
    remote,          \* a record fetched from Jira
    extracted,       \* the result of extractPropertiesFromIssue
    mpc,             \* which of these have been computed
    \* ---- IssueValidator ----
    files,           \* the contents of the files to validate, in the order of the run
    validation,      \* the ValidationResult of each file validated so far
    vpc,             \* where IssueValidator.run is
    \* ---- validateIssuesForDirectory with its repair ----
    toValidate,      \* the issues passed to validateIssuesForDirectory
    vIndex,          \* index of the issue of the list the loop is at
    subject,         \* the issue under validation: the one of the list, or as re-fetched
    validIssues,     \* the issues accepted so far
    fixAttempts,     \* per issue of the list: the calls of fixComponentMismatch for it
    rpc,             \* where the validation is
    \* ---- promoteSingleIssue ----
    promoted,        \* the issue being promoted, as Jira holds it
    wsLabels,        \* properties.labels of its _workspace document
    wsPresent,       \* whether its _workspace document exists
    wsBefore,        \* whether it existed when the command started
    promotionTarget, \* --target, "" when it was not given
    fault,           \* the step of the promotion that throws, "none" when none does
    ppc,             \* where promoteSingleIssue is
    labelPayloads,   \* fields.labels of the updates Jira accepted, in order
    dataFile,        \* the snapshot fetchSingleIssue wrote under _data, None before
    incrementDocs,   \* the documents written under the target increment
    \* ---- fetchEpicsForComponent ----
    jira,            \* the epics of the component in Jira, each with its children
    dataFiles,       \* the snapshot files under _data/<component>: path -> issue
    returned,        \* the snapshot files of what the last fetch got from Jira
    fpc,             \* where fetch-issues is
    fetches          \* number of fetches so far

reconcilerVars == <<dataStructure, filter, tree, tree0, pc, gi, wi, results,
                    removedFilePaths, removedOrphanPaths, run, interrupts,
                    treeAtInterrupt>>

codecVars == <<doc, codecOp, parsedBefore, hashBefore, cycles>>

batchVars == <<command, recurse, target, children, workspaceFiles, hasWorkspaceLabel,
               hasReWorkspaceLabel, failing, bpc, current, queue, outcome, remoteWrites,
               exitStatus, issueType, overwrites, batchRun>>

\* what only rework-issue changes
batchFrame == <<issueType, overwrites, batchRun>>

mapperVars == <<props, table, mappedFields, jiraFields, remote, extracted, mpc>>

validatorVars == <<files, validation, vpc>>

repairVars == <<toValidate, vIndex, subject, validIssues, fixAttempts, rpc>>

promoteVars == <<promoted, wsLabels, wsPresent, wsBefore, promotionTarget, fault, ppc,
                 labelPayloads, dataFile, incrementDocs>>

fetchVars == <<jira, dataFiles, returned, fpc, fetches>>

outsideReconciler == <<codecVars, batchVars, mapperVars, validatorVars, repairVars, promoteVars,
                       fetchVars>>
outsideCodec == <<reconcilerVars, batchVars, mapperVars, validatorVars, repairVars,
                  promoteVars, fetchVars>>

vars == <<reconcilerVars, codecVars, batchVars, mapperVars, validatorVars, repairVars,
          promoteVars, fetchVars>>

None == <<>>   \* undefined / null / absent string

\* no reconciliation is in progress
ReconcilerIdle ==
    /\ dataStructure = <<>>
    /\ filter = [component |-> None, epic |-> None]
    /\ tree = [files |-> <<>>, dirs |-> {}]
    /\ tree0 = tree
    /\ pc = "idle"
    /\ gi = 1
    /\ wi = 1
    /\ results = <<>>
    /\ removedFilePaths = {}
    /\ removedOrphanPaths = {}
    /\ run = 1
    /\ interrupts = 0
    /\ treeAtInterrupt = tree

\* no document is being edited
CodecIdle ==
    /\ doc = <<>>
    /\ codecOp = "idle"
    /\ parsedBefore = None
    /\ hashBefore = None
    /\ cycles = 0

\* no batch command is running
BatchIdle ==
    /\ command = "none"
    /\ recurse = FALSE
    /\ target = ""
    /\ children = <<>>
    /\ workspaceFiles = {}
    /\ hasWorkspaceLabel = {}
    /\ hasReWorkspaceLabel = {}
    /\ failing = {}
    /\ bpc = "idle"
    /\ current = None
    /\ queue = <<>>
    /\ outcome = <<>>
    /\ remoteWrites = <<>>
    /\ exitStatus = None
    /\ issueType = <<>>
    /\ overwrites = {}
    /\ batchRun = 0

\* nothing is being mapped
MapperIdle ==
    /\ props = <<>>
    /\ table = <<>>
    /\ mappedFields = <<>>
    /\ jiraFields = <<>>
    /\ remote = <<>>
    /\ extracted = <<>>
    /\ mpc = "idle"

\* nothing is being validated
ValidatorIdle ==
    /\ files = <<>>
    /\ validation = <<>>
    /\ vpc = "idle"

\* no issue list is being validated
RepairIdle ==
    /\ toValidate = <<>>
    /\ vIndex = 1
    /\ subject = None
    /\ validIssues = <<>>
    /\ fixAttempts = <<>>
    /\ rpc = "idle"

\* no promotion is running
PromoteIdle ==
    /\ promoted = None
    /\ wsLabels = <<>>
    /\ wsPresent = FALSE
    /\ wsBefore = FALSE
    /\ promotionTarget = ""
    /\ fault = "none"
    /\ ppc = "idle"
    /\ labelPayloads = <<>>
    /\ dataFile = None
    /\ incrementDocs = {}

\* nothing is being fetched
FetchIdle ==
    /\ jira = <<>>
    /\ dataFiles = <<>>
    /\ returned = {}
    /\ fpc = "idle"
    /\ fetches = 0

-----------------------------------------------------------------------------
(* String helpers (JavaScript String.prototype)                            *)

\* s.startsWith(p)
StartsWith(s, p) == Len(p) <= Len(s) /\ SubSeq(s, 1, Len(p)) = p

\* s.endsWith(p)
EndsWith(s, p) == Len(p) <= Len(s) /\ SubSeq(s, Len(s) - Len(p) + 1, Len(s)) = p

\* s.includes(p)
Includes(s, p) == \E i \in 0..(Len(s) - Len(p)) : SubSeq(s, i + 1, i + Len(p)) = p

UpperChars == {"A", "B", "E", "P", "X"}
LowerChars == {"a", "b", "c", "d", "e", "i", "k", "l", "m", "n", "o", "p", "r", "s", "t", "x", "y"}
DigitChars == {"0", "1", "2", "3", "4", "5", "6", "7", "8", "9"}

\* c.toLowerCase() for one character
LowerOf(c) ==
    CASE c = "A" -> "a" [] c = "B" -> "b" [] c = "E" -> "e"
      [] c = "P" -> "p" [] c = "X" -> "x" [] OTHER -> c

\* s.toLowerCase()
ToLowerCase(s) == [i \in 1..Len(s) |-> LowerOf(s[i])]

RECURSIVE FilterSeq(_, _)
FilterSeq(s, keep) ==
    IF s = <<>> THEN <<>>
    ELSE (IF Head(s) \in keep THEN <<Head(s)>> ELSE <<>>) \o FilterSeq(Tail(s), keep)

\* replace every maximal run of characters of `cls` by one `by`: s.replace(/[cls]+/g, by)
RECURSIVE CollapseRuns(_, _, _)
CollapseRuns(s, cls, by) ==
    IF s = <<>> THEN <<>>
    ELSE IF Head(s) \in cls
         THEN IF Len(s) > 1 /\ s[2] \in cls
              THEN CollapseRuns(Tail(s), cls, by)
              ELSE <<by>> \o CollapseRuns(Tail(s), cls, by)
         ELSE <<Head(s)>> \o CollapseRuns(Tail(s), cls, by)

\* s.replace(/^-|-$/g, '')
TrimHyphen(s) ==
    LET a == IF s # <<>> /\ Head(s) = "-" THEN Tail(s) ELSE s
    IN  IF a # <<>> /\ a[Len(a)] = "-" THEN SubSeq(a, 1, Len(a) - 1) ELSE a

\* markdown-processor.ts: the slug of determineCorrectEpicDirectory
Slugify(text) ==
    LET lower   == ToLowerCase(text)
        kept    == FilterSeq(lower, LowerChars \cup DigitChars \cup {" ", "-"})
        spaced  == CollapseRuns(kept, {" "}, "-")
        single  == CollapseRuns(spaced, {"-"}, "-")
    IN  TrimHyphen(single)

EPIC_ == <<"e", "p", "i", "c", "-">>
DOT_MD == <<".", "m", "d">>

\* issue type name -> lower-case file prefix
TypePrefix(type) ==
    CASE type = "Epic"  -> <<"e", "p", "i", "c">>
      [] type = "Story" -> <<"s", "t", "o", "r", "y">>
      [] type = "Task"  -> <<"t", "a", "s", "k">>
      [] type = "Spike" -> <<"s", "p", "i", "k", "e">>
      [] type = "Bug"   -> <<"b", "u", "g">>

\* `${type}-${key}.md`
DocName(type, key) == TypePrefix(type) \o <<"-">> \o key \o DOT_MD

\* length of the maximal run of characters of `cls` in s starting at position i
RECURSIVE RunLen(_, _, _)
RunLen(s, i, cls) ==
    IF i > Len(s) \/ s[i] \notin cls THEN 0 ELSE 1 + RunLen(s, i + 1, cls)

\* s.substring(i-1, i-1+Len(p)) = p, for a 1-based position i
HasAt(s, i, p) == i >= 1 /\ i + Len(p) - 1 <= Len(s) /\ SubSeq(s, i, i + Len(p) - 1) = p

\* /(?:epic|story|task|spike)-([A-Z]+-\d+)\.md/ anchored at position i with type
\* prefix p: the captured key, or None
KeyAt(s, i, p) ==
    LET k0 == i + Len(p) + 1                     \* first character of the key
        nl == RunLen(s, k0, UpperChars)          \* [A-Z]+
        nd == RunLen(s, k0 + nl + 1, DigitChars) \* \d+
        e  == k0 + nl + 1 + nd                   \* first character of ".md"
    IN  IF /\ HasAt(s, i, p \o <<"-">>)
           /\ nl >= 1
           /\ HasAt(s, k0 + nl, <<"-">>)
           /\ nd >= 1
           /\ HasAt(s, e, DOT_MD)
        THEN SubSeq(s, k0, e - 1)
        ELSE None

\* file.match(/(?:epic|story|task|spike)-([A-Z]+-\d+)\.md/): keyMatch[1] of the leftmost
\* match, or None when the pattern does not match
KeyMatch(s) ==
    LET RegexTypes == {"Epic", "Story", "Task", "Spike"}
        hits == { i \in 1..Len(s) : \E ty \in RegexTypes : KeyAt(s, i, TypePrefix(ty)) # None }
    IN  IF hits = {} THEN None
        ELSE LET i0 == CHOOSE i \in hits : \A o \in hits : i <= o
                 ty == CHOOSE t \in RegexTypes : KeyAt(s, i0, TypePrefix(t)) # None
             IN  KeyAt(s, i0, TypePrefix(ty))

-----------------------------------------------------------------------------
(* The _data snapshot and the mirror tree                                  *)

MaxGroups == 2     \* epic groups in a snapshot
MaxRuns == 2       \* runs of processEpics in one behaviour

C1 == <<"c", "1">>
C2 == <<"c", "2">>
UNASSIGNED == <<"u", "n", "a", "s", "s", "i", "g", "n", "e", "d">>

K1  == <<"P", "-", "1">>
K12 == <<"P", "-", "1", "2">>
K2  == <<"P", "-", "2">>
K3  == <<"P", "-", "3">>
K4  == <<"P", "-", "4">>
K5  == <<"P", "-", "5">>
K9  == <<"P", "-", "9">>

\* IssueRawData: key, fields.issuetype.name, fields.summary, fields.components[].name
\* and the epic link custom field
Issue(key, type, summary, components, epicLink) ==
    [key |-> key, type |-> type, summary |-> summary,
     components |-> components, epicLink |-> epicLink]

EpicP1  == Issue(K1, "Epic", <<"A">>, <<C1>>, None)
EpicP12 == Issue(K12, "Epic", <<"B", "!">>, <<C2, C1>>, None)
StoryP2 == Issue(K2, "Story", <<"s">>, <<>>, K1)
StoryP3 == Issue(K3, "Story", <<"s">>, <<>>, K1)
TaskP4  == Issue(K4, "Task", <<"t">>, <<>>, K12)
StoryP5 == Issue(K5, "Story", <<"s">>, <<>>, None)

\* one entry of the data structure: _data/<component>/<epicName>/*.json
Group(component, epicName, issues) ==
    [component |-> component, epicName |-> epicName, issues |-> issues]

GroupP1  == Group(C1, EPIC_ \o <<"a">>, <<EpicP1, StoryP2>>)
GroupP12 == Group(C2, EPIC_ \o <<"b">>, <<EpicP12, TaskP4, StoryP3>>)
GroupNoEpic == Group(C1, EPIC_ \o <<"x">>, <<StoryP5>>)

AllGroups == {GroupP1, GroupP12, GroupNoEpic}

\* JiraDataService.getDataStructure: a Map of components to a Map of epic names, so
\* the groups are distinct and the groups of one component are adjacent
Snapshots ==
    { ds \in UNION { [1..n -> AllGroups] : n \in 1..MaxGroups } :
        /\ \A i, j \in 1..Len(ds) : i # j => ds[i] # ds[j]
        /\ \A i, j, k \in 1..Len(ds) :
              (i < j /\ j < k /\ ds[i].component = ds[k].component)
                  => ds[j].component = ds[i].component }

\* the --component and --epic arguments of process-issue
Filters ==
    { [component |-> None, epic |-> None],
      [component |-> C1, epic |-> None],
      [component |-> None, epic |-> K1] }

DirA   == EPIC_ \o <<"a">>
DirB   == EPIC_ \o <<"b">>
DirOld == EPIC_ \o <<"o", "l", "d">>
README == <<"R", "E", "A", "D", "M", "E">>

\* what a mirror tree may hold before the first run, as sets of documents that come
\* together: a path is the sequence of names below planning/increments/<target>
CandidateFragments ==
    { { <<C1, DirA, DocName("Epic", K1)>>, <<C1, DirA, DocName("Story", K2)>> },
      { <<C1, DirA, DocName("Story", K9)>> },
      { <<C1, DocName("Story", K2)>> },
      { <<C1, DirOld, DocName("Task", K4)>> },
      { <<C2, DirOld, DocName("Epic", K12)>> },
      { <<C2, README \o DOT_MD>> } }

\* the directories on the way to a path
Parents(p) == { SubSeq(p, 1, n) : n \in 1..(Len(p) - 1) }

\* a tree holding the documents ps, each with content c
TreeOf(ps, c) ==
    [files |-> [p \in ps |-> c], dirs |-> UNION { Parents(p) : p \in ps }]

FilesOf(t) == DOMAIN t.files

-----------------------------------------------------------------------------
(* MarkdownProcessor: the pure parts of the reconciler                     *)

\* whether issues.find(issue => issuetype.name === 'Epic') finds an epic
HasEpic(issues) == \E i \in 1..Len(issues) : issues[i].type = "Epic"

\* issues.find(issue => issuetype.name === 'Epic'), when there is one
FindEpic(issues) ==
    LET is == { i \in 1..Len(issues) : issues[i].type = "Epic" }
    IN  issues[CHOOSE i \in is : \A o \in is : i <= o]

\* issues.filter(issue => issuetype.name === type), in order
RECURSIVE OfType(_, _)
OfType(issues, type) ==
    IF issues = <<>> THEN <<>>
    ELSE (IF Head(issues).type = type THEN <<Head(issues)>> ELSE <<>>)
            \o OfType(Tail(issues), type)

determineCorrectComponent(epic) ==
    IF Len(epic.components) > 0 THEN epic.components[1] ELSE UNASSIGNED

determineCorrectEpicDirectory(epic) ==
    EPIC_ \o Slugify(IF epic.summary # <<>> THEN epic.summary ELSE epic.key)

getEpicLink(issue) == issue.epicLink

\* the validation without its first check: the epic link is not looked at
RECURSIVE validateIssuesForDirectoryNoLinkCheck(_, _, _)
validateIssuesForDirectoryNoLinkCheck(issues, epicKey, expectedComponent) ==
    IF issues = <<>> THEN <<>>
    ELSE LET issue == Head(issues)
             compOk == issue.type = "Epic" =>
                          \E i \in 1..Len(issue.components) :
                              issue.components[i] = expectedComponent
         IN  (IF compOk THEN <<issue>> ELSE <<>>)
                \o validateIssuesForDirectoryNoLinkCheck(Tail(issues), epicKey,
                                                         expectedComponent)

\* the issues that pass both checks of validateIssuesForDirectory, in order.  The
\* component check applies to issues of type Epic only.
RECURSIVE validateIssuesForDirectory(_, _, _)
validateIssuesForDirectory(issues, epicKey, expectedComponent) ==
    IF issues = <<>> THEN <<>>
    ELSE LET issue == Head(issues)
             linkOk == getEpicLink(issue) = epicKey
             compOk == issue.type = "Epic" =>
                          \E i \in 1..Len(issue.components) :
                              issue.components[i] = expectedComponent
         IN  (IF linkOk /\ compOk THEN <<issue>> ELSE <<>>)
                \o validateIssuesForDirectory(Tail(issues), epicKey, expectedComponent)

\* the documents processEpicGroupWithEnforcement writes for a group that has an
\* epic, in the order it writes them: <<type, issue>>
WriteList(g) ==
    LET epic == FindEpic(g.issues)
        comp == determineCorrectComponent(epic)
        vs == validateIssuesForDirectory(OfType(g.issues, "Story"), epic.key, comp)
        vt == validateIssuesForDirectory(OfType(g.issues, "Task"), epic.key, comp)
        vk == validateIssuesForDirectory(OfType(g.issues, "Spike"), epic.key, comp)
    IN  <<epic>> \o vs \o vt \o vk

\* targetPath of a group that has an epic
TargetPath(g) ==
    LET epic == FindEpic(g.issues)
    IN  <<determineCorrectComponent(epic), determineCorrectEpicDirectory(epic)>>

\* validFileNames of cleanupMisplacedFiles
ValidFileNames(g) ==
    LET w == WriteList(g) IN { DocName(w[i].type, w[i].key) : i \in 1..Len(w) }

isOrphanedEpicFile(fileName, epicKey) ==
    Includes(fileName, epicKey) /\ EndsWith(fileName, DOT_MD)

\* searchAndRemoveMisplacedFiles: whether the walk unlinks the file at fullPath
UnlinksFile(fullPath, validFileNames, correctPath, epicKey) ==
    LET name == fullPath[Len(fullPath)]
    IN  /\ EndsWith(name, DOT_MD)
        /\ \/ name \in validFileNames /\ fullPath # correctPath \o <<name>>
           \/ isOrphanedEpicFile(name, epicKey)

\* MisplacedFiles with a walk that removes a file only when a document of the same
\* name is present at the canonical path
MisplacedFilesWhenCanonicalPresent(t, g) ==
    LET names == ValidFileNames(g)
        correctPath == TargetPath(g)
        epicKey == FindEpic(g.issues).key
    IN  { p \in FilesOf(t) :
            /\ UnlinksFile(p, names, correctPath, epicKey)
            /\ correctPath \o <<p[Len(p)]>> \in FilesOf(t) }

\* the files of tree t that cleanupMisplacedFiles still has to unlink for group g
MisplacedFiles(t, g) ==
    LET names == ValidFileNames(g)
        correctPath == TargetPath(g)
        epicKey == FindEpic(g.issues).key
    IN  { p \in FilesOf(t) : UnlinksFile(p, names, correctPath, epicKey) }

\* validEpicDirectories of processEpics, as <<component, epicDir>> pairs
ValidEpicDirectories(ds) ==
    { TargetPath(ds[i]) : i \in { j \in 1..Len(ds) : HasEpic(ds[j].issues) } }

\* validEpicKeys of processEpics
ValidEpicKeys(ds) ==
    { FindEpic(ds[i].issues).key : i \in { j \in 1..Len(ds) : HasEpic(ds[j].issues) } }

\* the filters of the processing loop of processEpics
Selected(ds, f, i) ==
    /\ f.component # None => ds[i].component = f.component
    /\ f.epic # None => \E k \in 1..Len(ds[i].issues) : ds[i].issues[k].key = f.epic

\* index of the first selected group at or after i, Len(ds) + 1 when there is none
NextGroup(ds, f, i) ==
    LET is == { j \in i..Len(ds) : Selected(ds, f, j) }
    IN  IF is = {} THEN Len(ds) + 1 ELSE CHOOSE j \in is : \A o \in is : j <= o

\* the names readdir returns for directory d of tree t
Entries(t, d) ==
    { p[Len(p)] : p \in { q \in FilesOf(t) \cup t.dirs : Len(q) = Len(d) + 1
                                                       /\ SubSeq(q, 1, Len(d)) = d } }

checkForValidEpicFiles(t, epicPath, validEpicKeys) ==
    \E file \in Entries(t, epicPath) :
        /\ EndsWith(file, DOT_MD)
        /\ KeyMatch(file) # None
        /\ KeyMatch(file) \in validEpicKeys

\* the component directories cleanupOrphanedEpicDirectories looks into
IsSpecialName(name) == StartsWith(name, <<"_">>) \/ StartsWith(name, <<".">>)

\* the epic directories of tree t that cleanupOrphanedEpicDirectories removes
OrphanedEpicDirectories(t, ds) ==
    LET validDirs == ValidEpicDirectories(ds)
        validKeys == ValidEpicKeys(ds)
    IN  { d \in t.dirs :
            /\ Len(d) = 2
            /\ ~IsSpecialName(d[1])
            /\ StartsWith(d[2], EPIC_)
            /\ d \notin validDirs
            /\ ~checkForValidEpicFiles(t, d, validKeys) }

\* meaningfulEntries of cleanupEmptyComponentDirectory
MeaningfulEntries(t, componentPath) ==
    { e \in Entries(t, componentPath) :
        /\ ~StartsWith(e, <<".">>)
        /\ ~StartsWith(e, <<"_">>)
        /\ ~Includes(e, README)
        /\ ~Includes(e, <<"C", "H", "A", "N", "G", "E", "L", "O", "G">>) }

\* the component directories of tree t that cleanupEmptyComponentDirectory removes,
\* once the orphaned epic directories of the component are gone
EmptyComponentDirectories(t, ds) ==
    { c \in t.dirs :
        /\ Len(c) = 1
        /\ ~IsSpecialName(c[1])
        /\ \A d \in OrphanedEpicDirectories(t, ds) : d[1] # c[1]
        /\ MeaningfulEntries(t, c) = {} }

\* paths of tree t below directory d
Below(t, d) ==
    { p \in FilesOf(t) \cup t.dirs : Len(p) > Len(d) /\ SubSeq(p, 1, Len(d)) = d }

\* the tree without the paths ps
Without(t, ps) ==
    [files |-> [p \in FilesOf(t) \ ps |-> t.files[p]], dirs |-> t.dirs \ ps]

\* fs.writeFile(path, rendered markdown) after fs.mkdir(dirname, recursive)
WithFile(t, p) ==
    [files |-> [q \in FilesOf(t) \cup {p} |-> IF q = p THEN "rendered" ELSE t.files[q]],
     dirs |-> t.dirs]

\* ensureDirectory: fs.mkdir(path, {recursive: true})
ensureDirectory(t, d) ==
    [files |-> t.files, dirs |-> t.dirs \cup Parents(d) \cup {d}]

-----------------------------------------------------------------------------
(* MarkdownProcessor: whole operations, as functions of the mirror tree    *)

\* cleanupMisplacedFiles for group g
cleanupMisplacedFiles(t, g) == Without(t, MisplacedFiles(t, g))

\* the writeFile calls of processEpicGroupWithEnforcement for the documents w
RECURSIVE WriteDocuments(_, _, _)
WriteDocuments(t, dir, w) ==
    IF w = <<>> THEN t
    ELSE WriteDocuments(WithFile(t, dir \o <<DocName(Head(w).type, Head(w).key)>>),
                        dir, Tail(w))

\* processEpicGroupWithEnforcement: a group without an epic throws before any
\* file-system operation
processEpicGroupWithEnforcement(t, g) ==
    IF ~HasEpic(g.issues) THEN t
    ELSE WriteDocuments(cleanupMisplacedFiles(ensureDirectory(t, TargetPath(g)), g),
                        TargetPath(g), WriteList(g))

\* the processing loop of processEpics from group i on
RECURSIVE ProcessGroups(_, _, _, _)
ProcessGroups(t, ds, f, i) ==
    IF i > Len(ds) THEN t
    ELSE ProcessGroups(processEpicGroupWithEnforcement(t, ds[i]), ds, f,
                       NextGroup(ds, f, i + 1))

\* ProcessingResult.success of the groups processEpics processes from group i on
RECURSIVE ProcessingResults(_, _, _)
ProcessingResults(ds, f, i) ==
    IF i > Len(ds) THEN <<>>
    ELSE <<HasEpic(ds[i].issues)>> \o ProcessingResults(ds, f, NextGroup(ds, f, i + 1))

\* cleanupOrphanedEpicDirectories with cleanupEmptyComponentDirectory
cleanupOrphanedEpicDirectories(t, ds) ==
    LET od == OrphanedEpicDirectories(t, ds)
        t1 == Without(t, od \cup UNION { Below(t, d) : d \in od })
        ec == EmptyComponentDirectories(t1, ds)
    IN  Without(t1, ec \cup UNION { Below(t1, c) : c \in ec })

\* processEpics(componentName, epicKey) run to completion on tree t
processEpics(t, ds, f) ==
    cleanupOrphanedEpicDirectories(ProcessGroups(t, ds, f, NextGroup(ds, f, 1)), ds)

-----------------------------------------------------------------------------
(* The reconciler as a state machine, one step per file-system operation   *)

\* the entry a directory walk reaches first among the paths ps: readdir returns the
\* entries of a directory in a fixed order, which the model leaves arbitrary
FirstOf(ps) == CHOOSE p \in ps : TRUE

StartPc(ds, f) == IF NextGroup(ds, f, 1) > Len(ds) THEN "orphans" ELSE "group"

ReconcilerInit ==
    /\ dataStructure \in Snapshots
    /\ filter \in Filters
    /\ \E fs \in SUBSET CandidateFragments : tree = TreeOf(UNION fs, "stale")
    /\ tree0 = tree
    /\ pc = StartPc(dataStructure, filter)
    /\ gi = NextGroup(dataStructure, filter, 1)
    /\ wi = 1
    /\ results = <<>>
    /\ removedFilePaths = {}
    /\ removedOrphanPaths = {}
    /\ run = 1
    /\ interrupts = 0
    /\ treeAtInterrupt = tree
    /\ CodecIdle
    /\ BatchIdle
    /\ MapperIdle
    /\ ValidatorIdle
    /\ RepairIdle
    /\ PromoteIdle
    /\ FetchIdle

\* the loop of processEpics moves on to the next selected group, or to the cleanup
Advance ==
    /\ gi' = NextGroup(dataStructure, filter, gi + 1)
    /\ pc' = IF gi' > Len(dataStructure) THEN "orphans" ELSE "group"
    /\ wi' = 1

\* processEpicGroupWithEnforcement on a group without an epic: throws, caught,
\* result.success = false
FailGroup ==
    /\ pc = "group"
    /\ ~HasEpic(dataStructure[gi].issues)
    /\ results' = Append(results, FALSE)
    /\ Advance
    /\ UNCHANGED <<dataStructure, filter, tree, tree0, removedFilePaths, removedOrphanPaths,
                   run, interrupts, treeAtInterrupt>>
    /\ UNCHANGED outsideReconciler

\* processEpicGroupWithEnforcement up to ensureDirectory(targetPath)
BeginGroup ==
    /\ pc = "group"
    /\ HasEpic(dataStructure[gi].issues)
    /\ tree' = ensureDirectory(tree, TargetPath(dataStructure[gi]))
    /\ pc' = "cleanup"
    /\ UNCHANGED <<dataStructure, filter, tree0, gi, wi, results, removedFilePaths,
                   removedOrphanPaths, run, interrupts, treeAtInterrupt>>
    /\ UNCHANGED outsideReconciler

\* searchAndRemoveMisplacedFiles: one fs.unlink
UnlinkMisplaced ==
    /\ pc = "cleanup"
    /\ MisplacedFiles(tree, dataStructure[gi]) # {}
    /\ LET p == FirstOf(MisplacedFiles(tree, dataStructure[gi]))
       IN  /\ tree' = Without(tree, {p})
           /\ removedFilePaths' = removedFilePaths \cup {p}
    /\ UNCHANGED <<dataStructure, filter, tree0, pc, gi, wi, results, removedOrphanPaths,
                   run, interrupts, treeAtInterrupt>>
    /\ UNCHANGED outsideReconciler

\* processEpicGroupWithEnforcement: one fs.writeFile, after the cleanup has returned
WriteDocument ==
    /\ pc \in {"cleanup", "write"}
    /\ pc = "cleanup" => MisplacedFiles(tree, dataStructure[gi]) = {}
    /\ LET g == dataStructure[gi]
           w == WriteList(g)
       IN  /\ tree' = WithFile(tree, TargetPath(g) \o <<DocName(w[wi].type, w[wi].key)>>)
           /\ IF wi < Len(w)
              THEN /\ wi' = wi + 1
                   /\ pc' = "write"
                   /\ UNCHANGED <<gi, results>>
              ELSE /\ results' = Append(results, TRUE)
                   /\ Advance
    /\ UNCHANGED <<dataStructure, filter, tree0, removedFilePaths, removedOrphanPaths,
                   run, interrupts, treeAtInterrupt>>
    /\ UNCHANGED outsideReconciler

\* the path cleanupOrphanedEpicDirectories removes next from tree t (an fs.unlink or an
\* fs.rmdir of removeDirectoryRecursively), or None when it has nothing left to remove.
\* It works component by component: the orphaned epic directories of the component,
\* then the component directory itself when cleanupEmptyComponentDirectory finds it empty.
NextRemoval(t, ds) ==
    LET od == OrphanedEpicDirectories(t, ds)
        pending == { c \in t.dirs :
                       /\ Len(c) = 1
                       /\ ~IsSpecialName(c[1])
                       /\ \/ \E d \in od : d[1] = c[1]
                          \/ MeaningfulEntries(t, c) = {} }
    IN  IF pending = {} THEN None
        ELSE LET c == FirstOf(pending)
                 mine == { d \in od : d[1] = c[1] }
                 top == IF mine # {} THEN FirstOf(mine) ELSE c
                 leaves == { q \in Below(t, top) : Below(t, q) = {} }
             IN  IF leaves # {} THEN FirstOf(leaves) ELSE top

\* cleanupOrphanedEpicDirectories: one fs.unlink or fs.rmdir of removeDirectoryRecursively
RemovePath ==
    /\ pc = "orphans"
    /\ LET p == NextRemoval(tree, dataStructure)
       IN  /\ p # None
           /\ tree' = Without(tree, {p})
           /\ removedOrphanPaths' = removedOrphanPaths \cup {p}
    /\ UNCHANGED <<dataStructure, filter, tree0, pc, gi, wi, results, removedFilePaths,
                   run, interrupts, treeAtInterrupt>>
    /\ UNCHANGED outsideReconciler

\* processEpics returns
FinishRun ==
    /\ pc = "orphans"
    /\ NextRemoval(tree, dataStructure) = None
    /\ pc' = "done"
    /\ UNCHANGED <<dataStructure, filter, tree, tree0, gi, wi, results, removedFilePaths,
                   removedOrphanPaths, run, interrupts, treeAtInterrupt>>
    /\ UNCHANGED outsideReconciler

\* a fresh invocation of processEpics on the same snapshot with the same arguments
Restart ==
    /\ run < MaxRuns
    /\ run' = run + 1
    /\ pc' = StartPc(dataStructure, filter)
    /\ gi' = NextGroup(dataStructure, filter, 1)
    /\ wi' = 1
    /\ results' = <<>>
    /\ removedFilePaths' = {}
    /\ removedOrphanPaths' = {}
    /\ UNCHANGED <<dataStructure, filter, tree, tree0>>
    /\ UNCHANGED outsideReconciler

\* the process is killed between two file-system operations and the command is run again
Interrupt ==
    /\ pc # "done"
    /\ interrupts = run - 1
    /\ interrupts' = interrupts + 1
    /\ treeAtInterrupt' = tree
    /\ Restart

\* the command is run again after it has completed
Rerun ==
    /\ pc = "done"
    /\ UNCHANGED <<interrupts, treeAtInterrupt>>
    /\ Restart

ReconcilerNext ==
    \/ FailGroup
    \/ BeginGroup
    \/ UnlinkMisplaced
    \/ WriteDocument
    \/ RemovePath
    \/ FinishRun
    \/ Interrupt
    \/ Rerun

Spec == ReconcilerInit /\ [][ReconcilerNext]_vars

-----------------------------------------------------------------------------
(* Properties of the reconciler                                            *)

\* the run in progress follows a run that completed
AfterCompleteRun == run > 1 /\ interrupts < run - 1

\* every earlier run was interrupted, and there was one
AfterInterruptedRuns == interrupts >= 1 /\ interrupts = run - 1

NoFilter == [component |-> None, epic |-> None]

\* the stepwise run and processEpics as a function agree on an uninterrupted first run
StepwiseAgrees ==
    (pc = "done" /\ run = 1)
        => /\ tree = processEpics(tree0, dataStructure, filter)
           /\ results = ProcessingResults(dataStructure, filter,
                                          NextGroup(dataStructure, filter, 1))

\* the valid entities of the snapshot: every epic and every validated child, with the
\* group it belongs to
ValidEntities(ds) ==
    { e \in UNION { { [group |-> i, issue |-> WriteList(ds[i])[k]] :
                        k \in 1..Len(WriteList(ds[i])) } :
                    i \in { j \in 1..Len(ds) : HasEpic(ds[j].issues) } } : TRUE }

ValidEntityKeys(ds) == { e.issue.key : e \in ValidEntities(ds) }

\* the files of tree t named as the document of the issue
DocumentsOf(t, issue) ==
    { p \in FilesOf(t) : p[Len(p)] = DocName(issue.type, issue.key) }

\* C1: when processEpics is run again on the same snapshot right after a run that
\* completed, the second run removes no file and no directory
C1_SecondRunRemovesNothing ==
    (pc = "done" /\ AfterCompleteRun)
        => (removedFilePaths = {} /\ removedOrphanPaths = {})

\* C2: after a complete unfiltered run in which every group succeeded, every valid
\* entity has exactly one document under the mirror tree, at its canonical path
C2_OneDocumentPerEntity ==
    (/\ pc = "done"
     /\ filter = NoFilter
     /\ \A i \in 1..Len(results) : results[i])
        => \A e \in ValidEntities(dataStructure) :
              DocumentsOf(tree, e.issue) =
                  { TargetPath(dataStructure[e.group])
                        \o <<DocName(e.issue.type, e.issue.key)>> }

\* C3: the orphan-directory cleanup never removes a file whose embedded key is the key
\* of a valid entity of the snapshot, so never a directory that still holds one
C3_OrphanCleanupSparesValidFiles ==
    \A p \in removedOrphanPaths :
        KeyMatch(p[Len(p)]) \notin ValidEntityKeys(dataStructure)

\* the scenario of C4: the snapshot is an epic and its story, and the epic directory
\* holds their two documents and a stray story document
C4_Scenario ==
    /\ dataStructure = <<GroupP1>>
    /\ filter = NoFilter
    /\ tree0 = TreeOf({ <<C1, DirA, DocName("Epic", K1)>>,
                        <<C1, DirA, DocName("Story", K2)>>,
                        <<C1, DirA, DocName("Story", K9)>> }, "stale")

\* C4: in that scenario one run deletes the stray document and no other file
C4_DeletesOnlyTheStray ==
    (C4_Scenario /\ pc = "done" /\ run = 1)
        => (removedFilePaths \cup (removedOrphanPaths \ tree0.dirs))
               = { <<C1, DirA, DocName("Story", K9)>> }

\* C5: when a run is interrupted between two file-system operations, a complete run
\* on the same snapshot ends with the mirror tree an uninterrupted run from the
\* original tree ends with
C5_RerunAfterInterruptConverges ==
    (pc = "done" /\ AfterInterruptedRuns)
        => tree = processEpics(tree0, dataStructure, filter)

\* a run was interrupted half-way, with some of its changes applied and others not,
\* and the run after it has completed
C5_Witness ==
    /\ pc = "done"
    /\ AfterInterruptedRuns
    /\ treeAtInterrupt # tree0
    /\ treeAtInterrupt # tree

-----------------------------------------------------------------------------
(* FrontmatterParser (utils/frontmatter-parser.ts)                         *)
(* A text is the non-empty sequence of its lines, a line the sequence of   *)
(* its lexemes; the empty line is <<>>, the empty string is one empty line.*)

MaxBodyLines == 2
MaxCycles == 2

FRONTMATTER_DELIMITER == <<"---">>
EmptyLine == <<>>

\* lines.join('\n'), read again as a sequence of lines: joining no line gives ''
Join(lines) == IF lines = <<>> THEN <<EmptyLine>> ELSE lines

\* the lines of a YAML mapping two levels deep, as js-yaml writes them with indent 2
Top(k) == <<k, ":">>
Field(k, v) == <<"  ", k, ": ", v>>
ListHead(k) == <<"  ", k, ":">>
Item(v) == <<"    - ", v>>

\* JavaScript values: a tag followed by the payload
UNDEFINED == <<"undefined">>
NULL == <<"null">>
Str(s) == <<"string", s>>
Num(digits) == <<"number", digits>>
EmptyArray == <<"array">>

NumberTokens == {"0", "3"}

\* the value js-yaml resolves a plain scalar to
Scalar(tok) ==
    IF tok = "null" THEN NULL
    ELSE IF tok = "[]" THEN EmptyArray
    ELSE IF tok \in NumberTokens THEN Num(tok)
    ELSE Str(tok)

\* a || b
Falsy(v) == v \in {UNDEFINED, NULL, Str(""), Num("0")}
OrElse(v, d) == IF Falsy(v) THEN d ELSE v

IsTop(l) == Len(l) = 2 /\ l[2] = ":"

\* the line of the top-level key, 0 when the mapping has no such key
SectionStart(text, section) ==
    LET is == { i \in 1..Len(text) : text[i] = Top(section) }
    IN  IF is = {} THEN 0 ELSE CHOOSE i \in is : \A j \in is : i <= j

\* the line after the last line of the section starting at line si
SectionEnd(text, si) ==
    LET js == { j \in (si + 1)..Len(text) : IsTop(text[j]) }
    IN  IF js = {} THEN Len(text) + 1 ELSE CHOOSE j \in js : \A k \in js : j <= k

\* the items of the block sequence starting at line i
RECURSIVE ItemsFrom(_, _)
ItemsFrom(text, i) ==
    IF i <= Len(text) /\ Len(text[i]) = 2 /\ text[i][1] = "    - "
    THEN <<text[i][2]>> \o ItemsFrom(text, i + 1)
    ELSE <<>>

\* data[section]?.[key] of the object yaml.load returns for the text
YamlGet(text, section, key) ==
    LET si == SectionStart(text, section)
    IN  IF si = 0 THEN UNDEFINED
        ELSE LET ks == { i \in (si + 1)..(SectionEnd(text, si) - 1) :
                           Len(text[i]) >= 3 /\ text[i][1] = "  " /\ text[i][2] = key }
             IN  IF ks = {} THEN UNDEFINED
                 ELSE LET i == CHOOSE i \in ks : TRUE
                      IN  IF Len(text[i]) = 4 THEN Scalar(text[i][4])
                          ELSE EmptyArray \o ItemsFrom(text, i + 1)

StandardKeys == {"project", "type", "components", "labels", "status"}
CustomKeys == {"customfield_12401", "customfield_12400", "customfield_10006",
               "customfield_10000"}
SyncKeys == {"issueKey", "lastSync", "localHash", "remoteHash"}

\* the text is empty or blank: yaml.load returns undefined
BlankText(text) == \A i \in 1..Len(text) : text[i] = EmptyLine

\* the text is a plain scalar, possibly over several lines: yaml.load returns a string
ScalarText(text) == \A i \in 1..Len(text) : Len(text[i]) <= 1

IsMappingLine(l) ==
    \/ l = EmptyLine
    \/ IsTop(l)
    \/ Len(l) \in {3, 4} /\ l[1] = "  "
    \/ Len(l) = 2 /\ l[1] = "    - "

\* the text is a block mapping of sections: yaml.load returns an object
MappingText(text) ==
    /\ \A i \in 1..Len(text) : IsMappingLine(text[i])
    /\ \E i \in 1..Len(text) : IsTop(text[i]) /\ \A j \in 1..(i - 1) : text[j] = EmptyLine

\* yaml.load returns a value whose properties normalizeFrontmatter can read: it throws on
\* a text that is neither a mapping nor a scalar, and data.standard throws on undefined
LoadsObject(text) == ~BlankText(text) /\ (ScalarText(text) \/ MappingText(text))

\* yaml.load, as far as normalizeFrontmatter reads its result
yamlLoad(text) ==
    [standard |-> [k \in StandardKeys |-> YamlGet(text, "standard", k)],
     custom   |-> [k \in CustomKeys |-> YamlGet(text, "custom", k)],
     sync     |-> [k \in SyncKeys |-> YamlGet(text, "sync", k)]]

normalizeFrontmatter(data) ==
    [standard |->
        [project    |-> OrElse(data.standard.project, NULL),
         type       |-> OrElse(data.standard.type, Str("Epic")),
         components |-> OrElse(data.standard.components, EmptyArray),
         labels     |-> OrElse(data.standard.labels, EmptyArray),
         status     |-> OrElse(data.standard.status, NULL)],
     custom |->
        [customfield_12401 |-> OrElse(data.custom.customfield_12401, Str("IaC")),
         customfield_12400 |-> OrElse(data.custom.customfield_12400,
                                      Str("Private Cloud 2.0")),
         customfield_10006 |-> OrElse(data.custom.customfield_10006, Num("0")),
         customfield_10000 |-> OrElse(data.custom.customfield_10000, NULL)],
     sync |->
        [issueKey   |-> OrElse(data.sync.issueKey, NULL),
         lastSync   |-> OrElse(data.sync.lastSync, NULL),
         localHash  |-> OrElse(data.sync.localHash, NULL),
         remoteHash |-> OrElse(data.sync.remoteHash, NULL)]]

\* the lines yaml.dump writes for one key of a section
DumpField(k, v) ==
    IF v[1] = "array"
    THEN IF Len(v) = 1 THEN <<Field(k, "[]")>>
         ELSE <<ListHead(k)>> \o [i \in 1..(Len(v) - 1) |-> Item(v[i + 1])]
    ELSE IF v = NULL THEN <<Field(k, "null")>>
    ELSE <<Field(k, v[2])>>

\* yaml.dump(frontmatter, {indent: 2, ...}): keys in the order normalizeFrontmatter
\* creates them, and a newline after the last line
yamlDump(fm) ==
    <<Top("standard")>>
        \o DumpField("project", fm.standard.project)
        \o DumpField("type", fm.standard.type)
        \o DumpField("components", fm.standard.components)
        \o DumpField("labels", fm.standard.labels)
        \o DumpField("status", fm.standard.status)
    \o <<Top("custom")>>
        \o DumpField("customfield_12401", fm.custom.customfield_12401)
        \o DumpField("customfield_12400", fm.custom.customfield_12400)
        \o DumpField("customfield_10006", fm.custom.customfield_10006)
        \o DumpField("customfield_10000", fm.custom.customfield_10000)
    \o <<Top("sync")>>
        \o DumpField("issueKey", fm.sync.issueKey)
        \o DumpField("lastSync", fm.sync.lastSync)
        \o DumpField("localHash", fm.sync.localHash)
        \o DumpField("remoteHash", fm.sync.remoteHash)
    \o <<EmptyLine>>

\* String.trim() of a text whose first and last non-empty lines carry no outer blanks
RECURSIVE Trim(_)
Trim(text) ==
    IF Len(text) > 1 /\ text[1] = EmptyLine THEN Trim(Tail(text))
    ELSE IF Len(text) > 1 /\ text[Len(text)] = EmptyLine
         THEN Trim(SubSeq(text, 1, Len(text) - 1))
    ELSE text

\* the index of the closing delimiter, -1 when there is none
frontmatterEndIndex(lines) ==
    LET is == { i \in 2..Len(lines) : lines[i] = FRONTMATTER_DELIMITER }
    IN  IF is = {} THEN -1 ELSE CHOOSE i \in is : \A j \in is : i <= j

\* parseContent returns, i.e. throws none of its errors
Parses(content) ==
    /\ Len(content) >= 2
    /\ content[1] = FRONTMATTER_DELIMITER
    /\ frontmatterEndIndex(content) # -1
    /\ LoadsObject(Join(SubSeq(content, 2, frontmatterEndIndex(content) - 1)))

parseContent(content) ==
    LET end == frontmatterEndIndex(content)
        frontmatterLines == SubSeq(content, 2, end - 1)
        contentLines == SubSeq(content, end + 1, Len(content))
    IN  [frontmatter |-> normalizeFrontmatter(yamlLoad(Join(frontmatterLines))),
         content     |-> Join(contentLines),
         rawContent  |-> content]

serialize(parsed) ==
    <<FRONTMATTER_DELIMITER>> \o Trim(yamlDump(parsed.frontmatter))
        \o <<FRONTMATTER_DELIMITER>> \o <<EmptyLine>> \o parsed.content

\* an MD5 digest, taken to be free of collisions
md5(contentString) == <<"md5", contentString>>

calculateContentHash(content) ==
    LET parsed == parseContent(content)
        contentForHash == [parsed.frontmatter EXCEPT !.sync.localHash = NULL,
                                                     !.sync.remoteHash = NULL]
    IN  md5(<<contentForHash, parsed.content>>)

\* {...sync, ...updates}
Spread(sync, updates) ==
    [k \in DOMAIN sync |-> IF k \in DOMAIN updates THEN updates[k] ELSE sync[k]]

updateSyncMetadata(content, updates) ==
    LET parsed == parseContent(content)
    IN  serialize([parsed EXCEPT !.frontmatter.sync = Spread(parsed.frontmatter.sync, updates)])

-----------------------------------------------------------------------------
(* Documents, and the codec as a state machine                             *)

StandardBlocks ==
    { <<>>,
      <<Top("standard"), Field("project", "POP")>>,
      <<Top("standard"), Field("project", "POP"), Field("type", "Story"),
        ListHead("components"), Item("C1"), Field("labels", "[]")>> }

CustomBlocks ==
    { <<>>,
      <<Top("custom"), Field("customfield_10006", "3")>>,
      <<Top("custom"), Field("customfield_10006", "0"), Field("customfield_10000", "null")>> }

SyncBlocks ==
    { <<>>,
      <<Top("sync"), Field("issueKey", "P-1")>>,
      <<Top("sync"), Field("issueKey", "P-1"), Field("lastSync", "t1"),
        Field("localHash", "h1"), Field("remoteHash", "h1")>> }

BodyLines == { EmptyLine, <<"x">>, FRONTMATTER_DELIMITER }

\* the lines that follow the metadata block
Bodies == UNION { [1..n -> BodyLines] : n \in 0..MaxBodyLines }

\* document files as an editor, a template or an earlier serialize may have left them:
\* with or without the opening and the closing delimiter
Documents ==
    { Join(opening \o st \o cu \o sy \o closing \o body) :
        opening \in { <<>>, <<FRONTMATTER_DELIMITER>> },
        st \in StandardBlocks, cu \in CustomBlocks, sy \in SyncBlocks,
        closing \in { <<>>, <<FRONTMATTER_DELIMITER>> },
        body \in Bodies }

Hashes == {"h1", "h2"}

CodecInit ==
    /\ doc \in Documents
    /\ codecOp = "read"
    /\ parsedBefore = None
    /\ hashBefore = None
    /\ cycles = 0
    /\ ReconcilerIdle
    /\ BatchIdle
    /\ MapperIdle
    /\ ValidatorIdle
    /\ RepairIdle
    /\ PromoteIdle
    /\ FetchIdle

\* parseContent throws on the document
ParseError ==
    /\ codecOp # "error"
    /\ ~Parses(doc)
    /\ codecOp' = "error"
    /\ UNCHANGED <<doc, parsedBefore, hashBefore, cycles>>
    /\ UNCHANGED outsideCodec

\* the document is parsed and written back: serialize(parseContent(doc))
Reserialize ==
    /\ cycles < MaxCycles
    /\ Parses(doc)
    /\ parsedBefore' = parseContent(doc)
    /\ hashBefore' = calculateContentHash(doc)
    /\ doc' = serialize(parseContent(doc))
    /\ codecOp' = "serialize"
    /\ cycles' = cycles + 1
    /\ UNCHANGED outsideCodec

\* updateSyncMetadata(doc, {localHash: h1, remoteHash: h2})
UpdateSyncMetadata ==
    /\ cycles < MaxCycles
    /\ Parses(doc)
    /\ \E h1 \in Hashes, h2 \in Hashes :
          doc' = updateSyncMetadata(doc, [localHash |-> Str(h1), remoteHash |-> Str(h2)])
    /\ parsedBefore' = parseContent(doc)
    /\ hashBefore' = calculateContentHash(doc)
    /\ codecOp' = "updateSyncMetadata"
    /\ cycles' = cycles + 1
    /\ UNCHANGED outsideCodec

CodecNext ==
    \/ ParseError
    \/ Reserialize
    \/ UpdateSyncMetadata

SpecCodec == CodecInit /\ [][CodecNext]_vars

\* the metadata survives a serialize / parse cycle
MetadataRoundTrips ==
    codecOp = "serialize" => parseContent(doc).frontmatter = parsedBefore.frontmatter

\* C6: after a parsed document was serialized, parsing the result gives the same
\* metadata and the same body as the parse before: parse(serialize(parse(d))) = parse(d)
C6_ParseSerializeRoundTrip ==
    codecOp = "serialize"
        => /\ parseContent(doc).frontmatter = parsedBefore.frontmatter
           /\ parseContent(doc).content = parsedBefore.content

\* C7: after updateSyncMetadata recorded a local and a remote hash in the document, the
\* content hash of the document is the one it had before
C7_HashUnperturbedBySyncUpdate ==
    codecOp = "updateSyncMetadata" => calculateContentHash(doc) = hashBefore

-----------------------------------------------------------------------------
(* The batch commands: update-issue, promote-issue, rework-issue with      *)
(* --recurse (commands/issue-update.ts, commands/issue-refine.ts) and      *)
(* process-issue (commands/process-epics.ts)                               *)

MaxChildren == 2

ParentKey == K1
ChildPool == <<K2, K3, K4, K5>>
ChildKeys == { ChildPool[i] : i \in 1..MaxChildren }
BatchKeys == {ParentKey} \cup ChildKeys

\* the children found, in the order of the directory scan or of the Jira search
ChildLists ==
    { SelectSeq(SubSeq(ChildPool, 1, MaxChildren), LAMBDA k : k \in ks) : ks \in SUBSET ChildKeys }

Range(q) == { q[i] : i \in 1..Len(q) }

\* the promotion targets of the workspace scope.yaml
PromotionLabels == {"FY26Q1"}
Targets == {"", "FY26Q1", "FY99"}

\* the issue types of the documents rework-issue is run on
IssueTypes == {"Epic", "Story", "Spike"}

\* the ways the processing of one issue ends with an error thrown
Threw(o) == o \in {"not-found", "remote-failed", "no-workspace-label", "invalid-target"}

BatchInit ==
    /\ command \in {"update-issue", "promote-issue", "rework-issue", "process-issue"}
    /\ recurse \in BOOLEAN
    /\ children \in ChildLists
    /\ failing \in SUBSET BatchKeys
    /\ IF command = "promote-issue"
       THEN target \in Targets /\ hasWorkspaceLabel \in SUBSET BatchKeys
       ELSE target = "" /\ hasWorkspaceLabel = BatchKeys
    /\ IF command = "rework-issue"
       THEN /\ workspaceFiles \in SUBSET BatchKeys
            /\ hasReWorkspaceLabel \in SUBSET {ParentKey}
       ELSE /\ \E parentThere \in BOOLEAN :
                 workspaceFiles = Range(children)
                                    \cup (IF parentThere THEN {ParentKey} ELSE {})
            /\ hasReWorkspaceLabel = {}
    /\ command = "process-issue"
          => recurse = FALSE /\ children = <<>> /\ failing = {} /\ workspaceFiles = {}
    /\ bpc = "start"
    /\ current = None
    /\ queue = <<>>
    /\ outcome = [k \in BatchKeys |-> "pending"]
    /\ remoteWrites = <<>>
    /\ exitStatus = None
    /\ issueType \in [BatchKeys -> IssueTypes]
    /\ issueType[ParentKey] = "Epic"
    /\ command # "rework-issue" => \A k \in ChildKeys : issueType[k] = "Story"
    /\ overwrites = {}
    /\ batchRun = 1
    /\ IF command = "process-issue"
       THEN /\ dataStructure \in Snapshots
            /\ filter \in Filters
            /\ tree = TreeOf({}, "stale")
            /\ tree0 = tree
            /\ pc = "idle"
            /\ gi = 1
            /\ wi = 1
            /\ results = <<>>
            /\ removedFilePaths = {}
            /\ removedOrphanPaths = {}
            /\ run = 1
            /\ interrupts = 0
            /\ treeAtInterrupt = tree
       ELSE ReconcilerIdle
    /\ CodecIdle
    /\ MapperIdle
    /\ ValidatorIdle
    /\ RepairIdle
    /\ PromoteIdle
    /\ FetchIdle

outsideBatch == <<reconcilerVars, codecVars, mapperVars, validatorVars, repairVars,
                  promoteVars, fetchVars>>

\* the processing of the current issue has ended with outcome o, and q are the children
\* still to process.  An error thrown for the parent leaves the ...WithChildren method
\* and is caught by run, which exits with status 1; an error thrown for a child is
\* caught in the loop over the children, which goes on.
Settle(o, q) ==
    /\ outcome' = [outcome EXCEPT ![current] = o]
    /\ IF Threw(o) /\ current = ParentKey
       THEN /\ bpc' = "exit"
            /\ exitStatus' = 1
            /\ UNCHANGED <<current, queue>>
       ELSE IF q = <<>>
       THEN /\ bpc' = "exit"
            /\ exitStatus' = 0
            /\ queue' = <<>>
            /\ UNCHANGED current
       ELSE /\ bpc' = "single"
            /\ current' = Head(q)
            /\ queue' = Tail(q)
            /\ UNCHANGED exitStatus

\* run, up to the call of ...SingleIssue for the issue named on the command line;
\* update and promote look for the children in _workspace before that
BeginCommand ==
    /\ bpc = "start"
    /\ command \in {"update-issue", "promote-issue", "rework-issue"}
    /\ current' = ParentKey
    /\ queue' = IF recurse /\ command # "rework-issue" THEN children ELSE <<>>
    /\ bpc' = "single"
    /\ UNCHANGED <<command, recurse, target, children, workspaceFiles, hasWorkspaceLabel,
                   hasReWorkspaceLabel, failing, outcome, remoteWrites, exitStatus>>
    /\ UNCHANGED batchFrame
    /\ UNCHANGED outsideBatch

\* IssueUpdater.updateSingleIssue
UpdateSingleIssue ==
    /\ bpc = "single"
    /\ command = "update-issue"
    /\ IF current \notin workspaceFiles THEN Settle("not-found", queue) /\ UNCHANGED remoteWrites
       ELSE IF current \in failing THEN Settle("remote-failed", queue) /\ UNCHANGED remoteWrites
       ELSE Settle("updated", queue) /\ remoteWrites' = Append(remoteWrites, current)
    /\ UNCHANGED <<command, recurse, target, children, workspaceFiles, hasWorkspaceLabel,
                   hasReWorkspaceLabel, failing>>
    /\ UNCHANGED batchFrame
    /\ UNCHANGED outsideBatch

\* IssuePromoter.promoteSingleIssue, its first statement: this.updateIssue(issueKey)
PromoteUpdateIssue ==
    /\ bpc = "single"
    /\ command = "promote-issue"
    /\ IF current \notin workspaceFiles THEN Settle("not-found", queue) /\ UNCHANGED remoteWrites
       ELSE IF current \in failing THEN Settle("remote-failed", queue) /\ UNCHANGED remoteWrites
       ELSE /\ remoteWrites' = Append(remoteWrites, current)
            /\ bpc' = "verify"
            /\ UNCHANGED <<current, queue, outcome, exitStatus>>
    /\ UNCHANGED <<command, recurse, target, children, workspaceFiles, hasWorkspaceLabel,
                   hasReWorkspaceLabel, failing>>
    /\ UNCHANGED batchFrame
    /\ UNCHANGED outsideBatch

\* IssuePromoter.promoteSingleIssue: the file is found and read, the 'workspace' label and
\* the promotion target are checked
PromoteVerify ==
    /\ bpc = "verify"
    /\ IF current \notin hasWorkspaceLabel THEN Settle("no-workspace-label", queue)
       ELSE IF target # "" /\ target \notin PromotionLabels THEN Settle("invalid-target", queue)
       ELSE bpc' = "write" /\ UNCHANGED <<current, queue, outcome, exitStatus>>
    /\ UNCHANGED <<command, recurse, target, children, workspaceFiles, hasWorkspaceLabel,
                   hasReWorkspaceLabel, failing, remoteWrites>>
    /\ UNCHANGED batchFrame
    /\ UNCHANGED outsideBatch

\* IssuePromoter.promoteSingleIssue: the labels are sent to Jira, the issue is fetched and
\* processed into the target increment, the _workspace file is removed
PromoteWrite ==
    /\ bpc = "write"
    /\ IF current \in failing
       THEN Settle("remote-failed", queue) /\ UNCHANGED <<remoteWrites, workspaceFiles>>
       ELSE /\ Settle("promoted", queue)
            /\ remoteWrites' = Append(remoteWrites, current)
            /\ workspaceFiles' = workspaceFiles \ {current}
    /\ UNCHANGED <<command, recurse, target, children, hasWorkspaceLabel,
                   hasReWorkspaceLabel, failing>>
    /\ UNCHANGED batchFrame
    /\ UNCHANGED outsideBatch

MaxBatchRuns == 2

\* the file name prefixes the workspace scans of the commands look for
ScannedPrefixes == { TypePrefix("Epic"), TypePrefix("Story"), TypePrefix("Task"),
                     TypePrefix("Bug"), <<"s", "u", "b", "-", "t", "a", "s", "k">> }

\* name.match(/^(epic|story|task|bug|sub-task)-<project>-\d+\.md$/i), the project being P
MatchesProjectRegex(name) ==
    \E pre \in ScannedPrefixes :
        /\ StartsWith(name, pre \o <<"-", "P", "-">>)
        /\ LET i == Len(pre) + 4
               n == RunLen(name, i, DigitChars)
           IN  n >= 1 /\ SubSeq(name, i + n, Len(name)) = DOT_MD

\* generateFileName: `${issueType.toLowerCase()}-${key}.md`
ReworkFileName(k) == DocName(issueType[k], k)

\* findFileInWorkspace(k) returns a file: scanWorkspaceForIssue reads the files whose name
\* matches the project pattern and keeps those whose frontmatter carries the key.  The
\* documents of _workspace are named and placed as rework-issue names and places them.
FindsInWorkspace(k) ==
    k \in workspaceFiles /\ MatchesProjectRegex(ReworkFileName(k))

\* IssueReworker.reworkSingleIssue, with addReWorkspaceLabel; after the parent,
\* reworkIssueWithChildren asks Jira for the children
ReworkSingleIssue ==
    /\ bpc = "single"
    /\ command = "rework-issue"
    /\ LET q == IF current = ParentKey /\ recurse THEN children ELSE queue
           written == /\ workspaceFiles' = workspaceFiles \cup {current}
                      /\ overwrites' = IF current \in workspaceFiles
                                       THEN overwrites \cup {current} ELSE overwrites
       IN  IF FindsInWorkspace(current)
           THEN /\ Settle("existing", q)
                /\ UNCHANGED <<remoteWrites, hasReWorkspaceLabel, workspaceFiles, overwrites>>
           ELSE IF current \in hasReWorkspaceLabel
           THEN /\ Settle("reworked", q)
                /\ written
                /\ UNCHANGED <<remoteWrites, hasReWorkspaceLabel>>
           ELSE IF current \in failing
           THEN /\ Settle("remote-failed", q)
                /\ UNCHANGED <<remoteWrites, hasReWorkspaceLabel, workspaceFiles, overwrites>>
           ELSE /\ Settle("reworked", q)
                /\ remoteWrites' = Append(remoteWrites, current)
                /\ hasReWorkspaceLabel' = hasReWorkspaceLabel \cup {current}
                /\ written
    /\ UNCHANGED <<command, recurse, target, children, hasWorkspaceLabel, failing,
                   issueType, batchRun>>
    /\ UNCHANGED outsideBatch

\* rework-issue is run again with the same arguments
ReworkAgain ==
    /\ bpc = "exit"
    /\ command = "rework-issue"
    /\ batchRun < MaxBatchRuns
    /\ batchRun' = batchRun + 1
    /\ bpc' = "start"
    /\ current' = None
    /\ queue' = <<>>
    /\ outcome' = [k \in BatchKeys |-> "pending"]
    /\ exitStatus' = None
    /\ UNCHANGED <<command, recurse, target, children, workspaceFiles, hasWorkspaceLabel,
                   hasReWorkspaceLabel, failing, remoteWrites, issueType, overwrites>>
    /\ UNCHANGED outsideBatch

\* the handler of process-issue without --issue and --dry-run, _data being there:
\* processEpics, then the summary of the results; the handler returns
ProcessEpicsHandler ==
    /\ bpc = "start"
    /\ command = "process-issue"
    /\ tree' = processEpics(tree, dataStructure, filter)
    /\ results' = ProcessingResults(dataStructure, filter, NextGroup(dataStructure, filter, 1))
    /\ pc' = "done"
    /\ bpc' = "exit"
    /\ exitStatus' = 0
    /\ UNCHANGED <<dataStructure, filter, tree0, gi, wi, removedFilePaths, removedOrphanPaths,
                   run, interrupts, treeAtInterrupt>>
    /\ UNCHANGED <<command, recurse, target, children, workspaceFiles, hasWorkspaceLabel,
                   hasReWorkspaceLabel, failing, current, queue, outcome, remoteWrites>>
    /\ UNCHANGED batchFrame
    /\ UNCHANGED <<codecVars, mapperVars, validatorVars, repairVars, promoteVars, fetchVars>>

BatchNext ==
    \/ BeginCommand
    \/ UpdateSingleIssue
    \/ PromoteUpdateIssue
    \/ PromoteVerify
    \/ PromoteWrite
    \/ ReworkSingleIssue
    \/ ReworkAgain
    \/ ProcessEpicsHandler

SpecBatch == BatchInit /\ [][BatchNext]_vars

\* the issues of the batch: the issue named on the command line and, with --recurse,
\* its children
Batch == {ParentKey} \cup (IF recurse THEN Range(children) ELSE {})

\* the issues whose processing threw
FailedIssues == { k \in BatchKeys : Threw(outcome[k]) }

\* a recursive update, promotion or rework has ended, and the errors it met were all
\* remote write failures
EndedWithRemoteFailuresOnly ==
    /\ bpc = "exit"
    /\ recurse
    /\ command \in {"update-issue", "promote-issue", "rework-issue"}
    /\ FailedIssues # {}
    /\ \A k \in FailedIssues : outcome[k] = "remote-failed"

\* C8: when a recursive update, promotion or rework has ended and some issues failed on
\* their remote write, every issue of the batch was attempted, the failing ones included
C8_RemoteFailureHaltsThatEntityOnly ==
    EndedWithRemoteFailuresOnly => \A k \in Batch : outcome[k] # "pending"

\* C9: when process-issue or a recursive update has ended, its exit status is non-zero
\* exactly if an epic group or an issue of the batch failed
C9_ExitStatusReflectsFailure ==
    (bpc = "exit" /\ command \in {"process-issue", "update-issue"})
        => ((exitStatus # 0)
              <=> (FailedIssues # {} \/ \E i \in 1..Len(results) : ~results[i]))

\* C10: an issue whose promotion was rejected for a missing 'workspace' label or for an
\* unknown target has had no update sent to Jira
C10_NoRemoteWriteBeforeLabelCheck ==
    \A k \in BatchKeys :
        outcome[k] \in {"no-workspace-label", "invalid-target"} => k \notin Range(remoteWrites)

\* the number of updates of issue k that Jira accepted
WritesOf(k) == Cardinality({ i \in 1..Len(remoteWrites) : remoteWrites[i] = k })

\* C11: however often rework-issue is run, it writes over no document that was already in
\* _workspace and it adds the 're-workspace' label to an issue at most once
C11_ReworkIsIdempotentPerKey ==
    command = "rework-issue"
        => /\ overwrites = {}
           /\ \A k \in BatchKeys : WritesOf(k) <= 1

-----------------------------------------------------------------------------
(* SimpleMapper (utils/simple-mapper.ts) and the extraction of             *)
(* MarkdownProcessor.  Property names and wire paths are strings the code  *)
(* searches and splits, hence sequences of characters.  A JavaScript       *)
(* object is the sequence of its <<key, value>> entries in key order.      *)

MaxEntries == 2

Obj(entries) == <<"object", entries>>
Arr(items) == <<"list", items>>
EmptyObj == Obj(<<>>)

IsObj(v) == v[1] = "object"
IsArr(v) == v[1] = "list"

\* the entries of an object, as Object.entries lists them
EntriesOf(o) == o[2]

HasKey(o, k) == \E i \in 1..Len(EntriesOf(o)) : EntriesOf(o)[i][1] = k

\* o[k]
GetKey(o, k) ==
    IF IsObj(o) /\ HasKey(o, k)
    THEN EntriesOf(o)[CHOOSE i \in 1..Len(EntriesOf(o)) : EntriesOf(o)[i][1] = k][2]
    ELSE UNDEFINED

\* o[k] = v: an existing key keeps its place
PutKey(o, k, v) ==
    IF HasKey(o, k)
    THEN Obj([i \in 1..Len(EntriesOf(o)) |->
                 IF EntriesOf(o)[i][1] = k THEN <<k, v>> ELSE EntriesOf(o)[i]])
    ELSE Obj(Append(EntriesOf(o), <<k, v>>))

\* s.split(sep) for a one-character separator
RECURSIVE SplitAt(_, _)
SplitAt(s, sep) ==
    LET is == { i \in 1..Len(s) : s[i] = sep }
    IN  IF is = {} THEN <<s>>
        ELSE LET i == CHOOSE i \in is : \A j \in is : i <= j
             IN  <<SubSeq(s, 1, i - 1)>> \o SplitAt(SubSeq(s, i + 1, Len(s)), sep)

\* property names
N_TYPE == <<"t", "y", "p", "e">>
N_COMPONENTS == <<"c", "o", "m", "p", "o", "n", "e", "n", "t", "s">>
N_STATUS == <<"s", "t", "a", "t", "u", "s">>
N_ASSIGNEE == <<"a", "s", "s", "i", "g", "n", "e", "e">>
N_STATE == <<"s", "t", "a", "t", "e">>
N_LABELS == <<"l", "a", "b", "e", "l", "s">>
N_POINTS == <<"p", "o", "i", "n", "t", "s">>
N_WORKSTREAM == <<"w", "o", "r", "k", "s", "t", "r", "e", "a", "m">>
N_SUMMARY == <<"s", "u", "m", "m", "a", "r", "y">>
N_TITLE == <<"t", "i", "t", "l", "e">>
N_KEY == <<"k", "e", "y">>
N_DESCRIPTION == <<"d", "e", "s", "c", "r", "i", "p", "t", "i", "o", "n">>
N_EXTRA == <<"e", "x", "t", "r", "a">>

readonlyFields == { <<"s", "t", "a", "t", "u", "s">>, <<"a", "s", "s", "i", "g", "n", "e", "e">>,
                    <<"r", "e", "p", "o", "r", "t", "e", "r">>,
                    <<"c", "r", "e", "a", "t", "e", "d">>,
                    <<"u", "p", "d", "a", "t", "e", "d">>,
                    <<"r", "e", "s", "o", "l", "u", "t", "i", "o", "n">> }

\* the step without the deny-list
mapPropertiesToJiraStepNoDenyList(result, properties, propertyName, apiPath) ==
    LET value == GetKey(properties, propertyName)
        issueTypeOfBag == GetKey(properties, N_TYPE)
    IN  IF value # UNDEFINED /\ value # NULL
        THEN IF propertyName = N_COMPONENTS /\ issueTypeOfBag # Str("Epic") THEN result
             ELSE PutKey(result, apiPath, value)
        ELSE result

\* the step emitting null values too
mapPropertiesToJiraStepKeepsNull(result, properties, propertyName, apiPath) ==
    LET value == GetKey(properties, propertyName)
        issueTypeOfBag == GetKey(properties, N_TYPE)
    IN  IF value # UNDEFINED
        THEN IF propertyName \in readonlyFields THEN result
             ELSE IF propertyName = N_COMPONENTS /\ issueTypeOfBag # Str("Epic") THEN result
             ELSE PutKey(result, apiPath, value)
        ELSE result

mapPropertiesToJiraStep(result, properties, propertyName, apiPath) ==
    LET value == GetKey(properties, propertyName)
        issueTypeOfBag == GetKey(properties, N_TYPE)
    IN  IF value # UNDEFINED /\ value # NULL
        THEN IF propertyName \in readonlyFields THEN result
             ELSE IF propertyName = N_COMPONENTS /\ issueTypeOfBag # Str("Epic") THEN result
             ELSE PutKey(result, apiPath, value)
        ELSE result

\* the loop of mapPropertiesToJira over the first n entries of the mapping
RECURSIVE mapPropertiesToJiraUpTo(_, _, _)
mapPropertiesToJiraUpTo(properties, mapping, n) ==
    IF n = 0 THEN EmptyObj
    ELSE mapPropertiesToJiraStep(mapPropertiesToJiraUpTo(properties, mapping, n - 1),
                                 properties, mapping[n][1], mapping[n][2])

\* a mapping table is the sequence of its <<propertyName, apiPath>> entries
mapPropertiesToJira(properties, mapping) ==
    mapPropertiesToJiraUpTo(properties, mapping, Len(mapping))

FIELDS == <<"f", "i", "e", "l", "d", "s">>
NAME == <<"n", "a", "m", "e">>
VALUE == <<"v", "a", "l", "u", "e">>
CUSTOMFIELD_ == <<"c", "u", "s", "t", "o", "m", "f", "i", "e", "l", "d", "_">>

\* obj.fields = obj.fields || {}; obj.fields[k] = v
PutField(obj, k, v) ==
    LET fs == IF Falsy(GetKey(obj, FIELDS)) THEN EmptyObj ELSE GetKey(obj, FIELDS)
    IN  PutKey(obj, FIELDS, PutKey(fs, k, v))

handleCustomField(obj, path, value) ==
    LET parts == SplitAt(path, ".")
        found == { i \in 1..Len(parts) : StartsWith(parts[i], CUSTOMFIELD_) }
    IN  IF found = {} THEN obj
        ELSE LET customFieldId == parts[CHOOSE i \in found : \A j \in found : i <= j]
             IN  IF Includes(path, <<".", "v", "a", "l", "u", "e">>)
                 THEN PutField(obj, customFieldId, Obj(<< <<VALUE, value>> >>))
                 ELSE PutField(obj, customFieldId, value)

\* Array.isArray(value) ? value : [value]
AsArray(value) == IF IsArr(value) THEN value ELSE Arr(<<value>>)

handleComponentsArray(obj, path, value) ==
    LET items == AsArray(value)[2]
    IN  PutField(obj, N_COMPONENTS,
                 Arr([i \in 1..Len(items) |->
                        IF items[i][1] = "string" THEN Obj(<< <<NAME, items[i]>> >>)
                        ELSE items[i]]))

\* labels stored as given, a scalar not wrapped
handleLabelsArrayUnwrapped(obj, path, value) == PutField(obj, N_LABELS, value)

handleLabelsArray(obj, path, value) == PutField(obj, N_LABELS, AsArray(value))

handleIssueType(obj, path, value) ==
    PutField(obj, <<"i", "s", "s", "u", "e", "t", "y", "p", "e">>, Obj(<< <<NAME, value>> >>))

handleStatus(obj, path, value) == PutField(obj, N_STATUS, Obj(<< <<NAME, value>> >>))

\* the default of setNestedField: intermediate objects are created along the segments
RECURSIVE SetAlong(_, _, _)
SetAlong(obj, parts, value) ==
    IF Len(parts) = 1 THEN PutKey(obj, parts[1], value)
    ELSE LET child == IF Falsy(GetKey(obj, parts[1])) THEN EmptyObj ELSE GetKey(obj, parts[1])
         IN  PutKey(obj, parts[1], SetAlong(child, Tail(parts), value))

setNestedField(obj, path, value) ==
    IF Includes(path, CUSTOMFIELD_) THEN handleCustomField(obj, path, value)
    ELSE IF Includes(path, <<"c", "o", "m", "p", "o", "n", "e", "n", "t", "s", "[", "]">>)
         THEN handleComponentsArray(obj, path, value)
    ELSE IF Includes(path, <<"l", "a", "b", "e", "l", "s", "[", "]">>) THEN handleLabelsArray(obj, path, value)
    ELSE IF Includes(path, <<"i", "s", "s", "u", "e", "t", "y", "p", "e">>) THEN handleIssueType(obj, path, value)
    ELSE IF Includes(path, N_STATUS) THEN handleStatus(obj, path, value)
    ELSE SetAlong(obj, SplitAt(path, "."), value)

\* the loop of convertToJiraFields over the first n entries of the flat map
RECURSIVE convertToJiraFieldsUpTo(_, _)
convertToJiraFieldsUpTo(mapped, n) ==
    IF n = 0 THEN EmptyObj
    ELSE setNestedField(convertToJiraFieldsUpTo(mapped, n - 1),
                        EntriesOf(mapped)[n][1], EntriesOf(mapped)[n][2])

\* return fields.fields || fields
convertToJiraFields(mapped) ==
    LET fields == convertToJiraFieldsUpTo(mapped, Len(EntriesOf(mapped)))
    IN  IF Falsy(GetKey(fields, FIELDS)) THEN fields ELSE GetKey(fields, FIELDS)

\* path.replace(/^api\./, '')
StripApi(path) ==
    IF StartsWith(path, <<"a", "p", "i", ".">>) THEN SubSeq(path, 5, Len(path)) ELSE path

\* an exception thrown in place of a value
THROWN == <<"throw">>

\* parts.join('.')
RECURSIVE JoinDots(_)
JoinDots(parts) ==
    IF parts = <<>> THEN <<>>
    ELSE IF Len(parts) = 1 THEN parts[1]
    ELSE parts[1] \o <<".">> \o JoinDots(Tail(parts))

\* part.replace('[]', ''): the first occurrence is removed
RemoveMarker(part) ==
    LET is == { i \in 1..(Len(part) - 1) : part[i] = "[" /\ part[i + 1] = "]" }
    IN  IF is = {} THEN part
        ELSE LET i == CHOOSE i \in is : \A j \in is : i <= j
             IN  SubSeq(part, 1, i - 1) \o SubSeq(part, i + 2, Len(part))

\* parts.indexOf(part)
IndexOf(parts, part) == CHOOSE i \in 1..Len(parts) : parts[i] = part /\ \A j \in 1..(i - 1) : parts[j] # part

RECURSIVE extractValueFromPath(_, _)
RECURSIVE ExtractWalk(_, _, _)

\* the loop of extractValueFromPath from segment i on, cur being the value reached
ExtractWalk(cur, parts, i) ==
    IF i > Len(parts) THEN cur
    ELSE IF cur \in {UNDEFINED, NULL} THEN THROWN
    ELSE IF Includes(parts[i], <<"[", "]">>)
    THEN LET source == GetKey(cur, RemoveMarker(parts[i]))
             remainingPath == JoinDots(SubSeq(parts, IndexOf(parts, parts[i]) + 1, Len(parts)))
         IN  IF IsArr(source)
             THEN LET items == [k \in 1..Len(source[2]) |->
                                  IF remainingPath # <<>>
                                  THEN extractValueFromPath(source[2][k], remainingPath)
                                  ELSE source[2][k]]
                  IN  IF \E k \in 1..Len(items) : items[k] = THROWN THEN THROWN
                      ELSE Arr(items)
             ELSE Arr(<<>>)
    ELSE LET next == GetKey(cur, parts[i])
         IN  IF next \in {UNDEFINED, NULL} THEN NULL
             ELSE ExtractWalk(next, parts, i + 1)

extractValueFromPath(data, path) == ExtractWalk(data, SplitAt(StripApi(path), "."), 1)

\* the loop of extractPropertiesFromIssue over the first n entries of the mapping:
\* an exception is caught and the property becomes null
\* the loop without its catch
RECURSIVE extractPropertiesUpToUncaught(_, _, _)
extractPropertiesUpToUncaught(issue, mapping, n) ==
    IF n = 0 THEN EmptyObj
    ELSE PutKey(extractPropertiesUpToUncaught(issue, mapping, n - 1), mapping[n][1],
                extractValueFromPath(issue, mapping[n][2]))

RECURSIVE extractPropertiesUpTo(_, _, _)
extractPropertiesUpTo(issue, mapping, n) ==
    IF n = 0 THEN EmptyObj
    ELSE LET v == extractValueFromPath(issue, mapping[n][2])
         IN  PutKey(extractPropertiesUpTo(issue, mapping, n - 1), mapping[n][1],
                    IF v = THROWN THEN NULL ELSE v)

extractPropertiesFromIssue(issue, mapping) == extractPropertiesUpTo(issue, mapping, Len(mapping))

-----------------------------------------------------------------------------
(* The mapping tables, property bags and remote records the mapper is      *)
(* exercised on.                                                           *)

\* wire paths
P_CUSTOM_VALUE == <<"a", "p", "i", ".", "f", "i", "e", "l", "d", "s", ".", "c", "u", "s", "t", "o", "m", "f", "i", "e", "l", "d", "_", "1", ".", "v", "a", "l", "u", "e">>
P_CUSTOM == <<"a", "p", "i", ".", "f", "i", "e", "l", "d", "s", ".", "c", "u", "s", "t", "o", "m", "f", "i", "e", "l", "d", "_", "2">>
P_COMPONENTS == <<"a", "p", "i", ".", "f", "i", "e", "l", "d", "s", ".", "c", "o", "m", "p", "o", "n", "e", "n", "t", "s", "[", "]", ".", "n", "a", "m", "e">>
P_LABELS == <<"a", "p", "i", ".", "f", "i", "e", "l", "d", "s", ".", "l", "a", "b", "e", "l", "s", "[", "]">>
P_ISSUETYPE == <<"a", "p", "i", ".", "f", "i", "e", "l", "d", "s", ".", "i", "s", "s", "u", "e", "t", "y", "p", "e", ".", "n", "a", "m", "e">>
P_STATUS == <<"a", "p", "i", ".", "f", "i", "e", "l", "d", "s", ".", "s", "t", "a", "t", "u", "s", ".", "n", "a", "m", "e">>
P_SUMMARY == <<"a", "p", "i", ".", "f", "i", "e", "l", "d", "s", ".", "s", "u", "m", "m", "a", "r", "y">>
P_KEY == <<"a", "p", "i", ".", "k", "e", "y">>
P_DESCRIPTION == <<"f", "i", "e", "l", "d", "s", ".", "d", "e", "s", "c", "r", "i", "p", "t", "i", "o", "n">>
P_ASSIGNEE == <<"a", "s", "s", "i", "g", "n", "e", "e">>

\* the entries a mapping table is made of, in the order a table lists them
CandidateEntries ==
    << <<N_WORKSTREAM, P_CUSTOM_VALUE>>,
       <<N_POINTS, P_CUSTOM>>,
       <<N_COMPONENTS, P_COMPONENTS>>,
       <<N_LABELS, P_LABELS>>,
       <<N_TYPE, P_ISSUETYPE>>,
       <<N_STATE, P_STATUS>>,
       <<N_STATUS, P_STATUS>>,
       <<N_SUMMARY, P_SUMMARY>>,
       <<N_TITLE, P_SUMMARY>>,
       <<N_KEY, P_KEY>>,
       <<N_DESCRIPTION, P_DESCRIPTION>>,
       <<N_ASSIGNEE, P_ASSIGNEE>> >>

\* the table made of the candidate entries whose index is in S
RECURSIVE TableFrom(_, _)
TableFrom(S, i) ==
    IF i > Len(CandidateEntries) THEN <<>>
    ELSE (IF i \in S THEN <<CandidateEntries[i]>> ELSE <<>>) \o TableFrom(S, i + 1)

MappingTables ==
    { TableFrom(S, 1) : S \in { T \in SUBSET (1..Len(CandidateEntries)) : Cardinality(T) <= MaxEntries } }

NamesOf(mapping) == { mapping[i][1] : i \in 1..Len(mapping) }

\* the values a property of a bag takes
ValuesOf(propertyName) ==
    CASE propertyName = N_COMPONENTS -> {UNDEFINED, NULL, Arr(<<Str("idp-infra"), Str("idp-ui")>>), Str("idp-infra")}
      [] propertyName = N_LABELS -> {UNDEFINED, NULL, Arr(<<Str("workspace")>>), Str("workspace")}
      [] propertyName = N_TYPE -> {UNDEFINED, Str("Epic"), Str("Story")}
      [] propertyName = N_POINTS -> {UNDEFINED, NULL, Num("5")}
      [] propertyName = N_WORKSTREAM -> {UNDEFINED, NULL, Str("IaC")}
      [] propertyName = N_STATE -> {UNDEFINED, NULL, Str("To Do")}
      [] propertyName = N_STATUS -> {UNDEFINED, NULL, Str("Done")}
      [] propertyName = N_SUMMARY -> {UNDEFINED, NULL, Str("a summary")}
      [] propertyName = N_TITLE -> {UNDEFINED, NULL, Str("a title")}
      [] propertyName = N_KEY -> {UNDEFINED, NULL, Str("P-1")}
      [] propertyName = N_DESCRIPTION -> {UNDEFINED, NULL, Str("a description")}
      [] propertyName = N_ASSIGNEE -> {UNDEFINED, NULL, Str("someone")}
      [] propertyName = N_EXTRA -> {UNDEFINED, Str("unmapped")}

\* the names a bag over a table may carry: those of the table, one the table does
\* not map, and 'type'
BagNames(mapping) ==
    [i \in 1..Len(mapping) |-> mapping[i][1]] \o <<N_EXTRA>>
        \o (IF N_TYPE \in NamesOf(mapping) THEN <<>> ELSE <<N_TYPE>>)

\* the entries of the bags over names[i..]; an undefined property is absent
RECURSIVE BagEntries(_, _)
BagEntries(names, i) ==
    IF i > Len(names) THEN { <<>> }
    ELSE { (IF v = UNDEFINED THEN <<>> ELSE << <<names[i], v>> >>) \o rest :
             v \in ValuesOf(names[i]), rest \in BagEntries(names, i + 1) }

Bags(mapping) == { Obj(es) : es \in BagEntries(BagNames(mapping), 1) }

ISSUETYPE == <<"i", "s", "s", "u", "e", "t", "y", "p", "e">>
CUSTOMFIELD_1 == <<"c", "u", "s", "t", "o", "m", "f", "i", "e", "l", "d", "_", "1">>
CUSTOMFIELD_2 == <<"c", "u", "s", "t", "o", "m", "f", "i", "e", "l", "d", "_", "2">>

\* a record with every field the candidate paths read
FullRecord ==
    Obj(<< <<N_KEY, Str("P-1")>>,
           <<FIELDS, Obj(<< <<N_SUMMARY, Str("a summary")>>,
                            <<ISSUETYPE, Obj(<< <<NAME, Str("Story")>> >>)>>,
                            <<N_STATUS, Obj(<< <<NAME, Str("To Do")>> >>)>>,
                            <<N_COMPONENTS, Arr(<< Obj(<< <<NAME, Str("idp-infra")>> >>) >>)>>,
                            <<N_LABELS, Arr(<<Str("workspace")>>)>>,
                            <<CUSTOMFIELD_1, Obj(<< <<VALUE, Str("IaC")>> >>)>>,
                            <<CUSTOMFIELD_2, Num("5")>> >>)>> >>)

\* a record whose fields are null, or not of the shape the paths expect
SparseRecord ==
    Obj(<< <<N_KEY, Str("P-1")>>,
           <<FIELDS, Obj(<< <<N_SUMMARY, NULL>>,
                            <<N_STATUS, NULL>>,
                            <<N_COMPONENTS, Str("idp-infra")>>,
                            <<N_LABELS, NULL>>,
                            <<CUSTOMFIELD_1, NULL>> >>)>> >>)

\* a record without 'fields'
BareRecord == Obj(<< <<N_KEY, Str("P-1")>> >>)

\* a record whose components hold a null item, and without labels
NullItemRecord ==
    Obj(<< <<FIELDS, Obj(<< <<N_COMPONENTS, Arr(<<NULL>>)>> >>)>> >>)

RemoteRecords == {FullRecord, SparseRecord, BareRecord, NullItemRecord, EmptyObj, NULL}

MapperInit ==
    /\ table \in MappingTables
    /\ props \in Bags(table)
    /\ mappedFields = <<>>
    /\ jiraFields = <<>>
    /\ remote = <<>>
    /\ extracted = <<>>
    /\ mpc = "bag"
    /\ ReconcilerIdle
    /\ CodecIdle
    /\ BatchIdle
    /\ ValidatorIdle
    /\ RepairIdle
    /\ PromoteIdle
    /\ FetchIdle

outsideMapper == <<reconcilerVars, codecVars, batchVars, validatorVars, repairVars,
                   promoteVars, fetchVars>>

\* IssueUpdater: mappedFields = mapPropertiesToJira(properties, mapping)
Flatten ==
    /\ mpc = "bag"
    /\ mappedFields' = mapPropertiesToJira(props, table)
    /\ mpc' = "flat"
    /\ UNCHANGED <<props, table, jiraFields, remote, extracted>>
    /\ UNCHANGED outsideMapper

\* IssueUpdater: jiraFields = convertToJiraFields(mappedFields)
Lower ==
    /\ mpc = "flat"
    /\ jiraFields' = convertToJiraFields(mappedFields)
    /\ mpc' = "lowered"
    /\ UNCHANGED <<props, table, mappedFields, remote, extracted>>
    /\ UNCHANGED outsideMapper

\* the record of lowered fields is read back through the same table
ExtractBack ==
    /\ mpc = "lowered"
    /\ remote' = jiraFields
    /\ extracted' = extractPropertiesFromIssue(jiraFields, table)
    /\ mpc' = "read back"
    /\ UNCHANGED <<props, table, mappedFields, jiraFields>>
    /\ UNCHANGED outsideMapper

\* MarkdownProcessor: a fetched record is read through the table
ExtractFromIssue ==
    /\ mpc = "bag"
    /\ \E r \in RemoteRecords :
          /\ remote' = r
          /\ extracted' = extractPropertiesFromIssue(r, table)
    /\ mpc' = "read"
    /\ UNCHANGED <<props, table, mappedFields, jiraFields>>
    /\ UNCHANGED outsideMapper

MapperNext == Flatten \/ Lower \/ ExtractBack \/ ExtractFromIssue

SpecMapper == MapperInit /\ [][MapperNext]_vars

-----------------------------------------------------------------------------
(* Properties of the mapper.                                               *)

\* mapPropertiesToJira has returned
Flattened == mpc \in {"flat", "lowered", "read back"}

\* the property is present in the bag with a value
Carries(properties, propertyName) ==
    GetKey(properties, propertyName) \notin {UNDEFINED, NULL}

\* C12: every entry of the flat map comes from a property that is not on the
\* read-only deny-list: a read-only property contributes no wire path
C12_ReadOnlyPropertiesEmitNothing ==
    Flattened =>
        \A e \in 1..Len(EntriesOf(mappedFields)) :
            \E i \in 1..Len(table) :
                /\ table[i][1] \notin readonlyFields
                /\ table[i][2] = EntriesOf(mappedFields)[e][1]
                /\ GetKey(props, table[i][1]) = EntriesOf(mappedFields)[e][2]

\* a bag carrying a read-only property next to a writable one has been flattened
C12_Witness ==
    /\ Flattened
    /\ \E i, j \in 1..Len(table) :
          /\ table[i][1] \in readonlyFields
          /\ Carries(props, table[i][1])
          /\ table[j][1] \notin readonlyFields
          /\ HasKey(mappedFields, table[j][2])
\* the property is one the flat map leaves out
Omitted(properties, propertyName) ==
    \/ ~Carries(properties, propertyName)
    \/ propertyName \in readonlyFields
    \/ propertyName = N_COMPONENTS /\ GetKey(properties, N_TYPE) # Str("Epic")

\* one entry path -> value per property of mapping[i..] that is not left out, in the
\* order of the table
RECURSIVE ExpectedEntries(_, _, _)
ExpectedEntries(properties, mapping, i) ==
    IF i > Len(mapping) THEN <<>>
    ELSE (IF Omitted(properties, mapping[i][1]) THEN <<>>
          ELSE << <<mapping[i][2], GetKey(properties, mapping[i][1])>> >>)
         \o ExpectedEntries(properties, mapping, i + 1)

\* the properties that are not left out have pairwise different wire paths
DistinctPaths(properties, mapping) ==
    \A i, j \in 1..Len(mapping) :
        (i < j /\ ~Omitted(properties, mapping[i][1]) /\ ~Omitted(properties, mapping[j][1]))
            => mapping[i][2] # mapping[j][2]

C14_EveryMappedPropertyEmitted ==
    (/\ Flattened
     /\ ~HasKey(props, N_TYPE)
     /\ \A i \in 1..Len(table) :
           Carries(props, table[i][1]) /\ table[i][1] \notin readonlyFields)
        => /\ \A i \in 1..Len(table) : HasKey(mappedFields, table[i][2])
           /\ \A e \in 1..Len(EntriesOf(mappedFields)) :
                 \E i \in 1..Len(table) :
                     EntriesOf(mappedFields)[e] = <<table[i][2], GetKey(props, table[i][1])>>

\* convertToJiraFields has returned
Lowered == mpc \in {"lowered", "read back"}

SpecialForms == {P_CUSTOM_VALUE, P_CUSTOM, P_COMPONENTS, P_LABELS, P_ISSUETYPE, P_STATUS}

\* a scalar is a one-element list
Wrapped(value) == IF IsArr(value) THEN value[2] ELSE <<value>>

\* the top-level key and the shape an entry of a special form is lowered to
ExpectedField(apiPath, value) ==
    CASE apiPath = P_CUSTOM_VALUE -> <<CUSTOMFIELD_1, Obj(<< <<VALUE, value>> >>)>>
      [] apiPath = P_CUSTOM -> <<CUSTOMFIELD_2, value>>
      [] apiPath = P_COMPONENTS ->
            <<N_COMPONENTS, Arr([k \in 1..Len(Wrapped(value)) |->
                                    Obj(<< <<NAME, Wrapped(value)[k]>> >>)])>>
      [] apiPath = P_LABELS -> <<N_LABELS, Arr(Wrapped(value))>>
      [] apiPath = P_ISSUETYPE -> <<ISSUETYPE, Obj(<< <<NAME, value>> >>)>>
      [] apiPath = P_STATUS -> <<N_STATUS, Obj(<< <<NAME, value>> >>)>>

\* C15: a flat map whose paths are all of the special forms, over different fields,
\* is lowered to an object without 'fields' wrapper that holds one top-level key per
\* entry, of the shape of its form, a scalar source of an array form wrapped
C15_SpecialFormsLowerToTheirShapes ==
    (Lowered /\ \A e \in 1..Len(EntriesOf(mappedFields)) :
                    EntriesOf(mappedFields)[e][1] \in SpecialForms)
        => /\ ~HasKey(jiraFields, FIELDS)
           /\ EntriesOf(jiraFields) =
                 [e \in 1..Len(EntriesOf(mappedFields)) |->
                     ExpectedField(EntriesOf(mappedFields)[e][1], EntriesOf(mappedFields)[e][2])]

\* a scalar source of labels was lowered next to another special form
C15_Witness ==
    /\ Lowered
    /\ Len(EntriesOf(mappedFields)) = 2
    /\ \A e \in 1..2 : EntriesOf(mappedFields)[e][1] \in SpecialForms
    /\ GetKey(mappedFields, P_LABELS) = Str("workspace")
    /\ GetKey(jiraFields, N_LABELS) = Arr(<<Str("workspace")>>)

API == <<"a", "p", "i">>

\* the path without its leading 'api.' and 'fields.' containers
StripContainer(path) ==
    LET p == StripApi(path)
    IN  IF StartsWith(p, FIELDS \o <<".">>) THEN SubSeq(p, Len(FIELDS) + 2, Len(p)) ELSE p

\* obj[parts[1]][parts[2]]...
RECURSIVE Lookup(_, _)
Lookup(obj, parts) ==
    IF parts = <<>> THEN obj
    ELSE IF ~IsObj(obj) THEN UNDEFINED
    ELSE Lookup(GetKey(obj, Head(parts)), Tail(parts))

\* C16: every entry of the flat map whose path is of none of the special forms is
\* found in the lowered object, nested along its dotted segments below the stripped
\* container, and no wrapper is left in the object
C16_DefaultPathsAreNested ==
    Lowered =>
        /\ \A e \in 1..Len(EntriesOf(mappedFields)) :
              EntriesOf(mappedFields)[e][1] \notin SpecialForms
                  => Lookup(jiraFields, SplitAt(StripContainer(EntriesOf(mappedFields)[e][1]), "."))
                         = EntriesOf(mappedFields)[e][2]
        /\ ~HasKey(jiraFields, FIELDS)
        /\ ~HasKey(jiraFields, API)

\* extractPropertiesFromIssue has read the lowered object back
ReadBack == mpc = "read back"

\* paths without array marker and without custom field
PlainPaths == {P_ISSUETYPE, P_STATUS, P_SUMMARY, P_KEY, P_DESCRIPTION, P_ASSIGNEE}

\* C17: for a table of plain paths (no array marker, no custom field) over writable
\* properties, reading the lowered flat map back through the table gives every
\* property of the table its value in the bag, null where the bag has none
C17_ExtractInvertsLowerFlatten ==
    (/\ ReadBack
     /\ \A i \in 1..Len(table) :
           table[i][2] \in PlainPaths /\ table[i][1] \notin readonlyFields)
        => \A i \in 1..Len(table) :
              GetKey(extracted, table[i][1]) =
                  (IF Carries(props, table[i][1]) THEN GetKey(props, table[i][1]) ELSE NULL)

\* extractPropertiesFromIssue has returned
Extracted == mpc \in {"read", "read back"}

Segments(path) == SplitAt(StripApi(path), ".")

Marked(part) == Includes(part, <<"[", "]">>)

\* how many segments come before the array marker, all of them if there is none
PlainLen(parts) ==
    IF \E k \in 1..Len(parts) : Marked(parts[k])
    THEN (CHOOSE k \in 1..Len(parts) : Marked(parts[k]) /\ \A j \in 1..(k - 1) : ~Marked(parts[j])) - 1
    ELSE Len(parts)

\* the record, or a key on the way along the plain segments, is missing or null
Unresolvable(record, parts) ==
    \E k \in 0..PlainLen(parts) : Lookup(record, SubSeq(parts, 1, k)) \in {UNDEFINED, NULL}

\* what the array-marked segment names in the record
MarkedSource(record, parts) ==
    GetKey(Lookup(record, SubSeq(parts, 1, PlainLen(parts))),
           SubSeq(parts[PlainLen(parts) + 1], 1, Len(parts[PlainLen(parts) + 1]) - 2))

\* C18: extractPropertiesFromIssue returns an object whose keys are the names of the
\* table, in its order, and never an exception; a property whose path meets a
\* missing key is null, a property whose array-marked segment names nothing or no
\* array is the empty array, and a property whose plain path resolves has the value
\* found, whatever happened to the others
C18_ExtractionIsTotal ==
    Extracted =>
        /\ [e \in 1..Len(EntriesOf(extracted)) |-> EntriesOf(extracted)[e][1]]
               = [i \in 1..Len(table) |-> table[i][1]]
        /\ \A i \in 1..Len(table) :
              LET parts == Segments(table[i][2])
                  value == GetKey(extracted, table[i][1])
              IN  /\ value # THROWN
                  /\ Unresolvable(remote, parts) => value = NULL
                  /\ (~Unresolvable(remote, parts) /\ PlainLen(parts) = Len(parts))
                        => value = Lookup(remote, parts)
                  /\ (/\ ~Unresolvable(remote, parts)
                      /\ PlainLen(parts) < Len(parts)
                      /\ ~IsArr(MarkedSource(remote, parts)))
                        => value = Arr(<<>>)

\* one property met a missing key and is null, another named something that is no
\* array and is the empty array
C18_Witness ==
    /\ mpc = "read"
    /\ remote = SparseRecord
    /\ \E i, j \in 1..Len(table) :
          /\ table[i][2] = P_ISSUETYPE
          /\ GetKey(extracted, table[i][1]) = NULL
          /\ table[j][2] = P_COMPONENTS
          /\ GetKey(extracted, table[j][1]) = Arr(<<>>)

-----------------------------------------------------------------------------
(* IssueValidator (commands/issue-update.ts).  A file content is a text as *)
(* above: the sequence of its lines, a line the sequence of its lexemes.   *)

MaxFiles == 2

H_SUMMARY == "## Summary"
H_DESCRIPTION == "## Description"
S_STORY == "### Story"
S_TECHNICAL == "### Technical Details"
S_ACCEPTANCE == "### Acceptance Criteria"
S_DEPENDENCIES == "### Dependencies"
S_DONE == "### Definition of Done"
INSTRUCTION == "<INSTRUCTION:"

requiredSections == <<S_STORY, S_TECHNICAL, S_ACCEPTANCE, S_DEPENDENCIES, S_DONE>>

\* the line starts with '###', resp. with '##'
StartsSection(l) == Len(l) >= 1 /\ l[1] \in Range(requiredSections)
StartsHeading(l) == StartsSection(l) \/ (Len(l) >= 1 /\ l[1] \in {H_SUMMARY, H_DESCRIPTION})

\* text.includes(lexemes): within one line
TextIncludes(text, lexemes) == \E i \in 1..Len(text) : Includes(text[i], lexemes)

\* the least element of a non-empty set of numbers
Least(S) == CHOOSE i \in S : \A j \in S : i <= j

\* content.match(/^---\n([\s\S]*?)\n---/): the line at which the match ends, 0 when
\* there is no match; the first line is '---' and a later line, not the second,
\* starts with '---'
frontmatterMatch(content) ==
    LET is == { i \in 3..Len(content) : StartsWith(content[i], FRONTMATTER_DELIMITER) }
    IN  IF Len(content) >= 2 /\ content[1] = FRONTMATTER_DELIMITER /\ is # {}
        THEN Least(is) ELSE 0

\* content.match(/## Summary\n\n(.*?)(?=\n\n##|$)/s), trimmed; '' without a match
summaryMatch(content) ==
    LET hs == { i \in 1..(Len(content) - 2) :
                  EndsWith(content[i], <<H_SUMMARY>>) /\ content[i + 1] = EmptyLine }
    IN  IF hs = {} THEN <<EmptyLine>>
        ELSE LET i == Least(hs)
                 ks == { k \in (i + 2)..(Len(content) - 2) :
                           content[k + 1] = EmptyLine /\ StartsHeading(content[k + 2]) }
             IN  Trim(SubSeq(content, i + 2, IF ks = {} THEN Len(content) ELSE Least(ks)))

\* content.match(/## Description\n\n([\s\S]*?)$/), trimmed; '' without a match
descriptionMatch(content) ==
    LET hs == { i \in 1..(Len(content) - 2) :
                  EndsWith(content[i], <<H_DESCRIPTION>>) /\ content[i + 1] = EmptyLine }
    IN  IF hs = {} THEN <<EmptyLine>>
        ELSE Trim(SubSeq(content, Least(hs) + 2, Len(content)))

\* parseMarkdown returns, i.e. neither it nor the reads of its result throw
parseMarkdownReturns(content) ==
    /\ frontmatterMatch(content) # 0
    /\ LoadsObject(SubSeq(content, 2, frontmatterMatch(content) - 1))

parseMarkdown(content) ==
    LET frontmatter == SubSeq(content, 2, frontmatterMatch(content) - 1)
    IN  [key          |-> OrElse(YamlGet(frontmatter, "properties", "key"), Str("unknown")),
         issueContent |->
            [summary     |-> summaryMatch(content),
             description |-> descriptionMatch(content),
             type        |-> OrElse(YamlGet(frontmatter, "properties", "type"), Str("unknown"))]]

\* description.match(new RegExp(`${sectionHeader}\\s*\\n([\\s\\S]*?)(?=\\n###|$)`, 'i')),
\* trimmed; '' without a match.  The white space after the header runs over empty
\* lines, so the capture starts at the first line that is not empty.
extractSection(description, sectionHeader) ==
    LET hs == { i \in 1..(Len(description) - 1) : EndsWith(description[i], <<sectionHeader>>) }
    IN  IF hs = {} THEN <<EmptyLine>>
        ELSE LET h == Least(hs)
                 ss == { j \in (h + 1)..Len(description) : description[j] # EmptyLine }
             IN  IF ss = {} THEN <<EmptyLine>>
                 ELSE LET first == Least(ss)
                          ks == { k \in first..(Len(description) - 1) :
                                    StartsSection(description[k + 1]) }
                      IN  Trim(SubSeq(description, first,
                                      IF ks = {} THEN Len(description) ELSE Least(ks)))

\* the errors pushed for the required sections from the i-th on
RECURSIVE MissingSections(_, _)
MissingSections(description, i) ==
    IF i > Len(requiredSections) THEN <<>>
    ELSE (IF TextIncludes(description, <<requiredSections[i]>>) THEN <<>>
          ELSE << <<"Missing required section: ", requiredSections[i]>> >>)
         \o MissingSections(description, i + 1)

\* validateStory with the checkbox check made whether or not the section is there
validateStoryAlwaysChecksBoxes(issueContent) ==
    LET description == issueContent.description
        storySection == extractSection(description, S_STORY)
        acSection == extractSection(description, S_ACCEPTANCE)
    IN  [errors |->
            MissingSections(description, 1)
            \o (IF TextIncludes(description, <<INSTRUCTION>>)
                THEN << <<"Description contains unfilled template instructions">> >> ELSE <<>>)
            \o (IF /\ TextIncludes(description, <<S_STORY>>)
                   /\ \/ ~TextIncludes(storySection, <<"As a">>)
                      \/ ~TextIncludes(storySection, <<"I want to">>)
                      \/ ~TextIncludes(storySection, <<"So that">>)
                THEN << <<"Story section should follow \"As a... I want to... So that...\" format">> >>
                ELSE <<>>),
         warnings |->
            IF /\ ~TextIncludes(acSection, <<"[ ]">>)
               /\ ~TextIncludes(acSection, <<"- ", "[ ]">>)
            THEN << <<"Acceptance criteria should use checkbox format [ ]">> >> ELSE <<>>]

\* what validateStory pushes on errors and warnings
validateStory(issueContent) ==
    LET description == issueContent.description
        storySection == extractSection(description, S_STORY)
        acSection == extractSection(description, S_ACCEPTANCE)
    IN  [errors |->
            MissingSections(description, 1)
            \o (IF TextIncludes(description, <<INSTRUCTION>>)
                THEN << <<"Description contains unfilled template instructions">> >> ELSE <<>>)
            \o (IF /\ TextIncludes(description, <<S_STORY>>)
                   /\ \/ ~TextIncludes(storySection, <<"As a">>)
                      \/ ~TextIncludes(storySection, <<"I want to">>)
                      \/ ~TextIncludes(storySection, <<"So that">>)
                THEN << <<"Story section should follow \"As a... I want to... So that...\" format">> >>
                ELSE <<>>),
         warnings |->
            IF /\ TextIncludes(description, <<S_ACCEPTANCE>>)
               /\ ~TextIncludes(acSection, <<"[ ]">>)
               /\ ~TextIncludes(acSection, <<"- ", "[ ]">>)
            THEN << <<"Acceptance criteria should use checkbox format [ ]">> >> ELSE <<>>]

\* validateAgainstTemplate for the types of the documents validated here: a Story, or
\* a type without checks of its own
validateAgainstTemplate(issueContent, typeOfIssue) ==
    LET basic ==
            (IF BlankText(issueContent.summary)
             THEN << <<"Summary is empty or missing">> >>
             ELSE IF TextIncludes(issueContent.summary, <<INSTRUCTION>>)
             THEN << <<"Summary contains template instructions - needs to be filled out">> >>
             ELSE <<>>)
            \o (IF BlankText(issueContent.description)
                THEN << <<"Description is empty or missing">> >>
                ELSE IF TextIncludes(issueContent.description, <<INSTRUCTION>>)
                THEN << <<"Description contains template instructions - needs to be filled out">> >>
                ELSE <<>>)
        typed == IF typeOfIssue \in {Str("Story"), Str("story")}
                 THEN validateStory(issueContent)
                 ELSE [errors |-> <<>>, warnings |-> <<>>]
    IN  [errors |-> basic \o typed.errors, warnings |-> typed.warnings]

validateFile(content) ==
    IF parseMarkdownReturns(content)
    THEN LET parsed == parseMarkdown(content)
             templateValidation ==
                 validateAgainstTemplate(parsed.issueContent, parsed.issueContent.type)
         IN  [key      |-> parsed.key,
              type     |-> parsed.issueContent.type,
              isValid  |-> templateValidation.errors = <<>>,
              errors   |-> templateValidation.errors,
              warnings |-> templateValidation.warnings]
    ELSE [key      |-> Str("unknown"),
          type     |-> Str("unknown"),
          isValid  |-> FALSE,
          errors   |-> << <<"Failed to parse file: ">> >>,
          warnings |-> <<>>]

-----------------------------------------------------------------------------
(* The files validated, and the validator as a state machine               *)

\* a delimiter line followed by a blank
LooseDelimiter == <<"---", " ">>

PropertiesBlock(type) == <<Top("properties"), Field("key", "POP-1"), Field("type", type)>>

\* the lines up to the body: with and without the delimiters, with a closing line
\* that only starts with the delimiter, with an empty metadata block
Heads ==
    { <<FRONTMATTER_DELIMITER>> \o PropertiesBlock("Story") \o <<FRONTMATTER_DELIMITER>>,
      <<FRONTMATTER_DELIMITER>> \o PropertiesBlock("Spike") \o <<FRONTMATTER_DELIMITER>>,
      PropertiesBlock("Story") \o <<FRONTMATTER_DELIMITER>>,
      <<FRONTMATTER_DELIMITER>> \o PropertiesBlock("Story"),
      PropertiesBlock("Story"),
      <<FRONTMATTER_DELIMITER>> \o PropertiesBlock("Story") \o <<LooseDelimiter>>,
      <<FRONTMATTER_DELIMITER, EmptyLine, FRONTMATTER_DELIMITER>> }

SummaryBlocks ==
    { <<>>,
      << <<H_SUMMARY>>, EmptyLine, <<"A summary">>, EmptyLine >>,
      << <<H_SUMMARY>>, EmptyLine, <<INSTRUCTION, " describe the issue>">>, EmptyLine >> }

StoryBlocks ==
    { <<>>,
      << <<S_STORY>>, <<"As a", " user ", "I want to", " log in ", "So that", " I can work">>, EmptyLine >>,
      << <<S_STORY>>, <<"Users log in">>, EmptyLine >> }

TechnicalBlocks == { <<>>, << <<S_TECHNICAL>>, <<"Uses the login service">>, EmptyLine >> }

\* the section absent, with open, ticked or no checkboxes, and empty
AcceptanceBlocks ==
    { <<>>,
      << <<S_ACCEPTANCE>>, <<"- ", "[ ]", " login works">>, EmptyLine >>,
      << <<S_ACCEPTANCE>>, <<"- ", "[x]", " login works">>, EmptyLine >>,
      << <<S_ACCEPTANCE>>, <<"login works">>, EmptyLine >>,
      << <<S_ACCEPTANCE>>, EmptyLine >> }

DependenciesBlocks ==
    { <<>>,
      << <<S_DEPENDENCIES>>, <<"None">>, EmptyLine >>,
      << <<S_DEPENDENCIES>>, <<"- ", "[ ]", " login service deployed">>, EmptyLine >> }

DoneBlocks ==
    { <<>>,
      << <<S_DONE>>, <<"Reviewed">> >>,
      << <<S_DONE>>, <<INSTRUCTION, " list the criteria>">> >> }

Descriptions ==
    { << <<H_DESCRIPTION>>, EmptyLine >> \o st \o te \o ac \o de \o do :
        st \in StoryBlocks, te \in TechnicalBlocks, ac \in AcceptanceBlocks,
        de \in DependenciesBlocks, do \in DoneBlocks }

\* every file a single validation is run on
IssueFiles ==
    { head \o <<EmptyLine>> \o su \o de :
        head \in Heads, su \in SummaryBlocks, de \in Descriptions \cup { <<>> } }

\* a Story description with all its sections, and one without acceptance criteria
FullDescription ==
    << <<H_DESCRIPTION>>, EmptyLine,
       <<S_STORY>>, <<"As a", " user ", "I want to", " log in ", "So that", " I can work">>, EmptyLine,
       <<S_TECHNICAL>>, <<"Uses the login service">>, EmptyLine,
       <<S_ACCEPTANCE>>, <<"- ", "[ ]", " login works">>, EmptyLine,
       <<S_DEPENDENCIES>>, <<"None">>, EmptyLine,
       <<S_DONE>>, <<"Reviewed">> >>

\* the files a batch is made of
BatchFiles ==
    { head \o << EmptyLine, <<H_SUMMARY>>, EmptyLine, <<"A summary">>, EmptyLine >> \o de :
        head \in Heads, de \in { FullDescription, << <<H_DESCRIPTION>>, EmptyLine >> } }

\* validate-issue --file on one file, or --all on the files getAllIssueFiles lists
ValidatorInit ==
    /\ \/ \E f \in IssueFiles : files = <<f>>
       \/ files \in UNION { [1..n -> BatchFiles] : n \in (0..MaxFiles) \ {1} }
    /\ validation = <<>>
    /\ vpc = "run"
    /\ ReconcilerIdle
    /\ CodecIdle
    /\ BatchIdle
    /\ MapperIdle
    /\ RepairIdle
    /\ PromoteIdle
    /\ FetchIdle

outsideValidator == <<reconcilerVars, codecVars, batchVars, mapperVars, repairVars,
                      promoteVars, fetchVars>>

\* no file was found: run returns
NoFiles ==
    /\ vpc = "run"
    /\ files = <<>>
    /\ vpc' = "returned"
    /\ UNCHANGED <<files, validation>>
    /\ UNCHANGED outsideValidator

\* one turn of the loop of run: results.push(await this.validateFile(file))
ValidateFile ==
    /\ vpc = "run"
    /\ Len(validation) < Len(files)
    /\ validation' = Append(validation, validateFile(files[Len(validation) + 1]))
    /\ UNCHANGED <<files, vpc>>
    /\ UNCHANGED outsideValidator

\* this.displayResults(results)
DisplayResults ==
    /\ vpc = "run"
    /\ files # <<>>
    /\ Len(validation) = Len(files)
    /\ vpc' = "displayed"
    /\ UNCHANGED <<files, validation>>
    /\ UNCHANGED outsideValidator

ValidatorNext == NoFiles \/ ValidateFile \/ DisplayResults

SpecValidator == ValidatorInit /\ [][ValidatorNext]_vars

-----------------------------------------------------------------------------
(* Properties of the validator.                                            *)

\* the first line is no opening delimiter, or no later line is a closing delimiter
Unparseable(content) ==
    \/ Len(content) < 2
    \/ content[1] # FRONTMATTER_DELIMITER
    \/ frontmatterEndIndex(content) = -1

\* a file of the batch with nothing to report
GoodFile ==
    <<FRONTMATTER_DELIMITER>> \o PropertiesBlock("Story") \o <<FRONTMATTER_DELIMITER>>
        \o << EmptyLine, <<H_SUMMARY>>, EmptyLine, <<"A summary">>, EmptyLine >> \o FullDescription

\* C19: a file without opening or without closing delimiter is an error of that file
\* only: parseContent throws on it, the validator reports it invalid, and the run
\* goes on to report every file of the batch, a good file as valid
C19_UnparseableFileFailsAlone ==
    /\ \A i \in 1..Len(validation) :
          /\ Unparseable(files[i]) => (~Parses(files[i]) /\ ~validation[i].isValid)
          /\ files[i] = GoodFile => validation[i].isValid
    /\ vpc = "displayed" => Len(validation) = Len(files)

CheckboxWarning == <<"Acceptance criteria should use checkbox format [ ]">>

\* a Story file with nothing to report but, possibly, its acceptance criteria
OtherwiseValidStory(content) ==
    /\ Parses(content)
    /\ YamlGet(SubSeq(content, 2, frontmatterEndIndex(content) - 1), "properties", "type")
          = Str("Story")
    /\ TextIncludes(content, <<H_SUMMARY>>)
    /\ TextIncludes(content, <<"A summary">>)
    /\ TextIncludes(content, <<H_DESCRIPTION>>)
    /\ TextIncludes(content, <<S_STORY>>)
    /\ TextIncludes(content, <<"As a">>)
    /\ TextIncludes(content, <<"I want to">>)
    /\ TextIncludes(content, <<"So that">>)
    /\ TextIncludes(content, <<S_TECHNICAL>>)
    /\ TextIncludes(content, <<S_DEPENDENCIES>>)
    /\ TextIncludes(content, <<S_DONE>>)
    /\ ~TextIncludes(content, <<INSTRUCTION>>)

\* the lines of the acceptance criteria: after the header, up to the next section
AcceptanceLines(content) ==
    LET h == Least({ i \in 1..Len(content) : content[i] = <<S_ACCEPTANCE>> })
        ns == { j \in (h + 1)..Len(content) : StartsSection(content[j]) }
    IN  SubSeq(content, h + 1, IF ns = {} THEN Len(content) ELSE Least(ns) - 1)

\* C20: an otherwise valid Story file without '### Acceptance Criteria' gets exactly
\* one error, the missing required section, and no warning about the checkbox
\* format; the warning is given only to a file that has the section, without '[ ]'
\* in it
C20_MissingAcceptanceCriteriaIsOneError ==
    \A i \in 1..Len(validation) :
        /\ (OtherwiseValidStory(files[i]) /\ ~TextIncludes(files[i], <<S_ACCEPTANCE>>))
              => /\ validation[i].errors = << <<"Missing required section: ", S_ACCEPTANCE>> >>
                 /\ CheckboxWarning \notin Range(validation[i].warnings)
        /\ CheckboxWarning \in Range(validation[i].warnings)
              => /\ TextIncludes(files[i], <<S_ACCEPTANCE>>)
                 /\ ~TextIncludes(AcceptanceLines(files[i]), <<"[ ]">>)

\* a Story file that lacks only its acceptance criteria has been validated
C20_Witness ==
    \E i \in 1..Len(validation) :
        /\ OtherwiseValidStory(files[i])
        /\ ~TextIncludes(files[i], <<S_ACCEPTANCE>>)
        /\ ~validation[i].isValid
        /\ Len(validation[i].errors) = 1

-----------------------------------------------------------------------------
(* Strict enforcement (markdown-processor.ts, processEpicGroupWithEnforcement): *)
(* the reconciler on snapshots that hold children of every type, children  *)
(* linked elsewhere or not at all, an epic whose summary has no character  *)
(* the slug keeps, and two epics whose summaries give the same slug        *)

K6 == <<"P", "-", "6">>
K7 == <<"P", "-", "7">>
K8 == <<"P", "-", "8">>

BugP3   == Issue(K3, "Bug", <<"s">>, <<>>, K1)
SpikeP6 == Issue(K6, "Spike", <<"s">>, <<>>, K1)
\* a story of the group whose epic link names another epic
StrayP4 == Issue(K4, "Story", <<"s">>, <<>>, K7)
\* an epic whose summary gives the slug of EpicP1, fetched under its second component
EpicTwin == Issue(K7, "Epic", <<"a">>, <<C1, C2>>, None)
TaskP8  == Issue(K8, "Task", <<"t">>, <<>>, K7)
\* an epic whose summary has only characters the slug strips
EpicBang == Issue(K9, "Epic", <<"!">>, <<C1>>, None)

GroupWide == Group(C1, EPIC_ \o <<"a">>, <<EpicP1, StoryP2, BugP3, SpikeP6, StrayP4, StoryP5>>)
GroupTwin == Group(C2, EPIC_ \o <<"a">>, <<EpicTwin, TaskP8>>)
GroupBang == Group(C1, EPIC_, <<EpicBang>>)

EnforcementGroups == {GroupWide, GroupTwin, GroupBang, GroupNoEpic}

EnforcementSnapshots ==
    { ds \in UNION { [1..n -> EnforcementGroups] : n \in 1..MaxGroups } :
        /\ \A i, j \in 1..Len(ds) : i # j => ds[i] # ds[j]
        /\ \A i, j, k \in 1..Len(ds) :
              (i < j /\ j < k /\ ds[i].component = ds[k].component)
                  => ds[j].component = ds[i].component }

EnforcementFragments ==
    { { <<C1, DirA, DocName("Epic", K1)>>, <<C1, DirA, DocName("Story", K2)>> },
      { <<C1, DocName("Story", K2)>> },
      { <<C2, DirOld, DocName("Epic", K12)>> } }

EnforcementInit ==
    /\ dataStructure \in EnforcementSnapshots
    /\ filter = NoFilter
    /\ \E fs \in SUBSET EnforcementFragments : tree = TreeOf(UNION fs, "stale")
    /\ tree0 = tree
    /\ pc = StartPc(dataStructure, filter)
    /\ gi = NextGroup(dataStructure, filter, 1)
    /\ wi = 1
    /\ results = <<>>
    /\ removedFilePaths = {}
    /\ removedOrphanPaths = {}
    /\ run = 1
    /\ interrupts = 0
    /\ treeAtInterrupt = tree
    /\ CodecIdle
    /\ BatchIdle
    /\ MapperIdle
    /\ ValidatorIdle
    /\ RepairIdle
    /\ PromoteIdle
    /\ FetchIdle

SpecEnforcement == EnforcementInit /\ [][ReconcilerNext]_vars

\* the indices of the groups of the snapshot that have an epic
EpicGroups(ds) == { i \in 1..Len(ds) : HasEpic(ds[i].issues) }

\* the issues of group g that are no epics
ChildrenOf(g) == { g.issues[k] : k \in { j \in 1..Len(g.issues) : g.issues[j].type # "Epic" } }

\* the path at which the reconciler places the document of issue c of group g
CanonicalPath(g, c) == TargetPath(g) \o <<DocName(c.type, c.key)>>

\* the slug of the epic of group g is empty
EmptySlug(g) == determineCorrectEpicDirectory(FindEpic(g.issues)) = EPIC_

\* C21: a group whose epic has an empty slug is reported as failed, and no directory
\* named from the empty slug is created for it
C21_EmptySlugIsAnError ==
    \A i \in EpicGroups(dataStructure) :
        EmptySlug(dataStructure[i])
            => /\ TargetPath(dataStructure[i]) \notin tree.dirs
               /\ (i <= Len(results) /\ run = 1) => ~results[i]

\* the first run is at work on a group that has an epic: its directory is there, the
\* last of its documents is not written yet
InsideGroup == run = 1 /\ pc \in {"cleanup", "write"}

\* C22: at no point of the processing of a group is a valid entity of the group, that
\* had a document under the mirror tree before the run, without a document
C22_NoEntityLosesItsDocument ==
    InsideGroup
        => \A k \in 1..Len(WriteList(dataStructure[gi])) :
              LET e == WriteList(dataStructure[gi])[k]
              IN  DocumentsOf(tree0, e) # {} => DocumentsOf(tree, e) # {}

\* the children of group g that validateIssuesForDirectory excludes for their epic link
Unlinked(g) == { c \in ChildrenOf(g) : getEpicLink(c) # FindEpic(g.issues).key }

C25_EveryLinkedChildIsMaterialized ==
    (pc = "done" /\ run = 1 /\ \A k \in 1..Len(results) : results[k])
        => \A i \in EpicGroups(dataStructure) :
              \A c \in ChildrenOf(dataStructure[i]) \ Unlinked(dataStructure[i]) :
                  CanonicalPath(dataStructure[i], c) \in FilesOf(tree)

\* IssueUpdater.getEpicKeyFromDirectory(filePath) on tree t: the keys it may return, None
\* for null.  The epic directory is the first part of the directory of the file that
\* starts with 'epic-'; its entries are read in the order readdir gives them, which the
\* model leaves open, and the first 'epic-*.md' file whose frontmatter holds a key
\* decides.  A document named `epic-${key}.md` holds properties.key = key.
getEpicKeyFromDirectory(t, filePath) ==
    LET dirPath == SubSeq(filePath, 1, Len(filePath) - 1)
        found == { n \in 1..Len(dirPath) : StartsWith(dirPath[n], EPIC_) }
    IN  IF found = {} THEN {None}
        ELSE LET epicDir == SubSeq(dirPath, 1, CHOOSE n \in found : \A m \in found : n <= m)
                 keys == { KeyMatch(name) :
                             name \in { e \in Entries(t, epicDir) :
                                          /\ epicDir \o <<e>> \in FilesOf(t)
                                          /\ EndsWith(e, DOT_MD)
                                          /\ StartsWith(e, EPIC_)
                                          /\ KeyMatch(e) # None } }
             IN  IF keys = {} THEN {None} ELSE keys

\* after a complete run in which every group succeeded, the epic key read from the
\* directory of the document of a child is the key of the epic the child is linked to
KeyReadIsOwnEpic ==
    (pc = "done" /\ run = 1 /\ \A k \in 1..Len(results) : results[k])
        => \A i \in EpicGroups(dataStructure) :
              \A c \in ChildrenOf(dataStructure[i]) \ Unlinked(dataStructure[i]) :
                  CanonicalPath(dataStructure[i], c) \in FilesOf(tree)
                      => getEpicKeyFromDirectory(tree, CanonicalPath(dataStructure[i], c))
                             = {getEpicLink(c)}

\* C30: two epics of a snapshot are never given the same directory, so that the epic key
\* update-issue reads from the directory of a child is the key of the epic of the child
C30_EpicDirectoriesAreDisjoint ==
    /\ \A i, j \in EpicGroups(dataStructure) :
          FindEpic(dataStructure[i].issues).key # FindEpic(dataStructure[j].issues).key
              => TargetPath(dataStructure[i]) # TargetPath(dataStructure[j])
    /\ KeyReadIsOwnEpic

-----------------------------------------------------------------------------
(* validateIssuesForDirectory with fixComponentMismatch                    *)
(* (markdown-processor.ts), one step per check and per repair.  The call   *)
(* validateIssuesForDirectory([fixedIssue], ...) made for a repaired issue *)
(* runs the same loop body on the re-fetched issue and returns into the    *)
(* loop of the caller, which goes on with the next issue of its list.      *)

MaxIssues == 2     \* issues in a list passed to validateIssuesForDirectory
MaxAttempts == 2   \* calls of fixComponentMismatch for one issue the model follows

\* an epic of another component, and one that is not linked either
EpicMoved == Issue(K8, "Epic", <<"m">>, <<C2>>, K1)
EpicLoose == Issue(K6, "Epic", <<"l">>, <<C2>>, None)

RepairIssues == {StoryP2, StoryP5, EpicMoved, EpicLoose}

\* the epicKey and expectedComponent arguments
RepairEpicKey == K1
RepairComponent == C1

\* Check 1 fails
EpicLinkMismatch(issue, epicKey) == getEpicLink(issue) # epicKey

\* Check 2 fails: it is made for issues of type Epic only
ComponentMismatch(issue, expectedComponent) ==
    /\ issue.type = "Epic"
    /\ \A i \in 1..Len(issue.components) : issue.components[i] # expectedComponent

\* what fixComponentMismatch gets back from Jira: updateIssue or getIssue throws, getIssue
\* returns nothing, or it returns the issue, with the component set or as it was
RemoteAnswers == {"throws", "null", "repaired", "unchanged"}

Refetched(issue, answer, correctComponent) ==
    IF answer = "repaired" THEN [issue EXCEPT !.components = <<correctComponent>>] ELSE issue

RepairInit ==
    /\ toValidate \in UNION { [1..n -> RepairIssues] : n \in 1..MaxIssues }
    /\ vIndex = 1
    /\ subject = toValidate[1]
    /\ validIssues = <<>>
    /\ fixAttempts = [i \in 1..Len(toValidate) |-> 0]
    /\ rpc = "check"
    /\ ReconcilerIdle
    /\ CodecIdle
    /\ BatchIdle
    /\ MapperIdle
    /\ ValidatorIdle
    /\ PromoteIdle
    /\ FetchIdle

outsideRepair == <<reconcilerVars, codecVars, batchVars, mapperVars, validatorVars,
                   promoteVars, fetchVars>>

\* the loop moves to the next issue of the list, or the validation returns
NextIssue ==
    /\ vIndex' = vIndex + 1
    /\ IF vIndex < Len(toValidate)
       THEN subject' = toValidate[vIndex + 1] /\ rpc' = "check"
       ELSE subject' = None /\ rpc' = "done"

\* the two checks on the issue under validation
CheckIssue ==
    /\ rpc = "check"
    /\ IF /\ ~EpicLinkMismatch(subject, RepairEpicKey)
          /\ ~ComponentMismatch(subject, RepairComponent)
       THEN /\ validIssues' = Append(validIssues, subject)
            /\ NextIssue
       ELSE IF ComponentMismatch(subject, RepairComponent)
       THEN /\ rpc' = "fix"
            /\ UNCHANGED <<vIndex, subject, validIssues>>
       ELSE /\ NextIssue
            /\ UNCHANGED validIssues
    /\ UNCHANGED <<toValidate, fixAttempts>>
    /\ UNCHANGED outsideRepair

\* fixComponentMismatch, and the re-validation of what it returns
FixComponentMismatch ==
    /\ rpc = "fix"
    /\ fixAttempts[vIndex] < MaxAttempts
    /\ fixAttempts' = [fixAttempts EXCEPT ![vIndex] = @ + 1]
    /\ IF subject.type # "Epic"
       THEN NextIssue
       ELSE \E answer \in RemoteAnswers :
               IF answer \in {"throws", "null"}
               THEN NextIssue
               ELSE /\ subject' = Refetched(subject, answer, RepairComponent)
                    /\ rpc' = "check"
                    /\ UNCHANGED vIndex
    /\ UNCHANGED <<toValidate, validIssues>>
    /\ UNCHANGED outsideRepair

RepairNext ==
    \/ CheckIssue
    \/ FixComponentMismatch

SpecRepair == RepairInit /\ [][RepairNext]_vars

-----------------------------------------------------------------------------
(* JiraDataService.fetchEpicsForComponent (services/jira-data-service.ts): *)
(* fetch-issues for one component, run again after Jira has changed        *)

MaxFetches == 2    \* fetches of the component in one behaviour

DOT_JSON == <<".", "j", "s", "o", "n">>

\* `${type}-${key}.json`, the type in lower case
JsonName(type, key) == TypePrefix(type) \o <<"-">> \o key \o DOT_JSON

\* generateEpicFolderName
generateEpicFolderName(epic) ==
    EPIC_ \o Slugify(IF epic.summary # <<>> THEN epic.summary ELSE epic.key)

\* one epic of the component with the children getIssueChildren returns for it
Remote(epic, childIssues) == [epic |-> epic, children |-> childIssues]

EpicRenamed == Issue(K1, "Epic", <<"B">>, <<C1>>, None)
EpicOther   == Issue(K7, "Epic", <<"x">>, <<C1>>, None)
StoryMoved  == Issue(K2, "Story", <<"s">>, <<>>, K7)

\* what Jira may hold for the component: epic P-1 under one of two summaries or not at
\* all, epic P-7 or not, and story P-2 under one of them or deleted
RemoteContents ==
    { SelectSeq(<<Remote(IF x[1] = "renamed" THEN EpicRenamed ELSE EpicP1,
                         IF x[3] = K1 THEN <<StoryP2>> ELSE <<>>),
                  Remote(EpicOther, IF x[3] = K7 THEN <<StoryMoved>> ELSE <<>>)>>,
                LAMBDA r : /\ r.epic.key = K1 => x[1] # "absent"
                           /\ r.epic.key = K7 => x[2]) :
        x \in { y \in {"absent", "there", "renamed"} \X BOOLEAN \X {None, K1, K7} :
                  /\ y[3] = K1 => y[1] # "absent"
                  /\ y[3] = K7 => y[2] } }

\* fs.writeFile of every file of w over the files of d
Overwrite(d, w) ==
    [p \in DOMAIN d \cup DOMAIN w |-> IF p \in DOMAIN w THEN w[p] ELSE d[p]]

\* the files the loop of fetchEpicsForComponent writes for the epics from the n-th on
RECURSIVE SavedFrom(_, _)
SavedFrom(epics, n) ==
    IF n > Len(epics) THEN << >>
    ELSE LET epic == epics[n].epic
             epicDataPath == <<generateEpicFolderName(epic)>>
             kids == epics[n].children
             mine == [p \in {epicDataPath \o <<JsonName("Epic", epic.key)>>}
                            \cup { epicDataPath \o <<JsonName(kids[i].type, kids[i].key)>> :
                                     i \in 1..Len(kids) } |->
                        IF p = epicDataPath \o <<JsonName("Epic", epic.key)>> THEN epic
                        ELSE kids[CHOOSE i \in 1..Len(kids) :
                                    p = epicDataPath \o <<JsonName(kids[i].type, kids[i].key)>>]]
         IN  Overwrite(mine, SavedFrom(epics, n + 1))

\* the snapshot files of what getEpicsByComponent and getIssueChildren returned
SnapshotOf(epics) == SavedFrom(epics, 1)

FetchInit ==
    /\ jira \in RemoteContents
    /\ dataFiles = << >>
    /\ returned = {}
    /\ fpc = "ready"
    /\ fetches = 0
    /\ ReconcilerIdle
    /\ CodecIdle
    /\ BatchIdle
    /\ MapperIdle
    /\ ValidatorIdle
    /\ RepairIdle
    /\ PromoteIdle

outsideFetch == <<reconcilerVars, codecVars, batchVars, mapperVars, validatorVars,
                  repairVars, promoteVars>>

\* fetchEpicsForComponent runs to its end without an error: no epics, nothing is
\* touched; otherwise the files of every epic and of its children are written
FetchEpicsForComponent ==
    /\ fpc = "ready"
    /\ fetches < MaxFetches
    /\ fetches' = fetches + 1
    /\ dataFiles' = Overwrite(dataFiles, SnapshotOf(jira))
    /\ returned' = DOMAIN SnapshotOf(jira)
    /\ fpc' = "fetched"
    /\ UNCHANGED jira
    /\ UNCHANGED outsideFetch

\* issues are deleted, renamed or moved in Jira, and fetch-issues is started again
RemoteChange ==
    /\ fpc = "fetched"
    /\ jira' \in RemoteContents \ {jira}
    /\ fpc' = "ready"
    /\ UNCHANGED <<dataFiles, returned, fetches>>
    /\ UNCHANGED outsideFetch

FetchNext ==
    \/ FetchEpicsForComponent
    \/ RemoteChange

SpecFetch == FetchInit /\ [][FetchNext]_vars

\* C29: when a fetch of the component has completed without error, the snapshot files of
\* the component are the files of what Jira returned in that fetch, with their contents
C29_SnapshotIsWhatTheRemoteReturned ==
    fpc = "fetched" => dataFiles = SnapshotOf(jira)

-----------------------------------------------------------------------------
(* IssuePromoter.promoteSingleIssue (commands/issue-update.ts) with        *)
(* MarkdownProcessor.processSingleIssue (services/markdown-processor.ts),  *)
(* one step per awaited call that can throw                                *)

MaxLabels == 3     \* labels in the _workspace document

WORKSPACE == Str("workspace")
RE_WORKSPACE == Str("re-workspace")

\* the labels a document may list; Jira keeps the labels of an issue as a set, and a
\* document lists a label once
LabelPool == {WORKSPACE, RE_WORKSPACE, Str("FY26Q1"), Str("team-a")}

LabelLists ==
    { ls \in UNION { [1..n -> LabelPool] : n \in 0..MaxLabels } :
        \A i, j \in 1..Len(ls) : i # j => ls[i] # ls[j] }

\* currentLabels.includes(label)
ListIncludes(list, label) == \E i \in 1..Len(list) : list[i] = label

\* the labels sent by the promotion: 'workspace' and 're-workspace' also stay
newLabelsKeepingReWorkspace(currentLabels, promotionLabel) ==
    LET kept == SelectSeq(currentLabels, LAMBDA label : label # WORKSPACE)
    IN  IF ListIncludes(kept, Str(promotionLabel)) THEN kept
        ELSE Append(kept, Str(promotionLabel))

\* newLabels of promoteSingleIssue
newLabels(currentLabels, promotionLabel) ==
    LET kept == SelectSeq(currentLabels,
                          LAMBDA label : label # WORKSPACE /\ label # RE_WORKSPACE)
    IN  IF ListIncludes(kept, Str(promotionLabel)) THEN kept
        ELSE Append(kept, Str(promotionLabel))

\* the mapping of the documents, as the templates write it
PromotionMapping == << <<N_KEY, P_KEY>>, <<N_TYPE, P_ISSUETYPE>>, <<N_LABELS, P_LABELS>> >>

\* frontmatter.properties of the document of the issue, with the labels given; the text
\* of the key plays no part in the labels
PropertiesWith(issue, labelList) ==
    Obj(<< <<N_KEY, Str("key")>>, <<N_TYPE, Str(issue.type)>>, <<N_LABELS, Arr(labelList)>> >>)

\* payload.fields.labels of the update built from the properties
LabelsSent(bag) == GetKey(convertToJiraFields(mapPropertiesToJira(bag, PromotionMapping)), N_LABELS)

\* a story that carries a component of its own
StoryC1 == Issue(K4, "Story", <<"s">>, <<C1>>, K1)

PromotedIssues == {EpicP1, StoryP2, StoryC1, SpikeP6, TaskP8}

UNKNOWN == <<"u", "n", "k", "n", "o", "w", "n">>

\* processSingleIssue: issueType === 'epic' ? 'epic' : issueType === 'task' ? 'task' : 'story',
\* named here as the issue types are
SingleIssueType(issueData) ==
    IF issueData.type = "Epic" THEN "Epic"
    ELSE IF issueData.type = "Task" THEN "Task"
    ELSE "Story"

\* generateEpicDirectoryName(summary)
generateEpicDirectoryName(summary) == EPIC_ \o Slugify(summary)

\* determineTargetDirectory, below planning/increments/<target>
determineTargetDirectory(component, issueData, type) ==
    IF type = "Epic" THEN <<component, generateEpicDirectoryName(issueData.summary)>>
    ELSE <<component>>

\* generateFileName
generateFileName(issueData, type) == DocName(type, issueData.key)

\* the path of the file processSingleIssue writes for the snapshot issueData
processSingleIssue(issueData) ==
    LET type == SingleIssueType(issueData)
        component == IF Len(issueData.components) > 0 THEN issueData.components[1]
                     ELSE UNKNOWN
    IN  determineTargetDirectory(component, issueData, type)
            \o <<generateFileName(issueData, type)>>

\* the steps of promoteSingleIssue in order
PromotionSteps == <<"update", "verify", "labels", "fetch", "process", "unlink", "done">>

\* the position after a step, errors being swallowed
AfterStepIgnoringErrors(step, threw) ==
    PromotionSteps[1 + CHOOSE n \in 1..Len(PromotionSteps) : PromotionSteps[n] = step]

\* the position after a step: an error thrown leaves promoteSingleIssue
AfterStep(step, threw) ==
    IF threw THEN "failed"
    ELSE PromotionSteps[1 + CHOOSE n \in 1..Len(PromotionSteps) : PromotionSteps[n] = step]

PromotionFaults == {"none", "update", "labels", "fetch", "process", "unlink"}

PromotionInit ==
    /\ promoted \in PromotedIssues
    /\ wsLabels \in LabelLists
    /\ wsPresent \in BOOLEAN
    /\ wsBefore = wsPresent
    /\ promotionTarget \in Targets
    /\ fault \in PromotionFaults
    /\ ppc = "update"
    /\ labelPayloads = <<>>
    /\ dataFile = <<>>
    /\ incrementDocs = {}
    /\ ReconcilerIdle
    /\ CodecIdle
    /\ BatchIdle
    /\ MapperIdle
    /\ ValidatorIdle
    /\ RepairIdle
    /\ FetchIdle

outsidePromotion == <<reconcilerVars, codecVars, batchVars, mapperVars, validatorVars,
                      repairVars, fetchVars>>

\* this.updateIssue(issueKey): the document is looked up and sent to Jira as it is
PromotionUpdateIssue ==
    /\ ppc = "update"
    /\ LET threw == ~wsPresent \/ fault = "update"
       IN  /\ ppc' = AfterStep("update", threw)
           /\ labelPayloads' =
                 IF threw THEN labelPayloads
                 ELSE Append(labelPayloads, LabelsSent(PropertiesWith(promoted, wsLabels)))
    /\ UNCHANGED <<promoted, wsLabels, wsPresent, wsBefore, promotionTarget, fault, dataFile,
                   incrementDocs>>
    /\ UNCHANGED outsidePromotion

\* the 'workspace' label and the target are checked; without --target the label is
\* chosen at the prompt
PromotionVerify ==
    /\ ppc = "verify"
    /\ IF ~ListIncludes(wsLabels, WORKSPACE)
       THEN ppc' = AfterStep("verify", TRUE) /\ UNCHANGED promotionTarget
       ELSE IF promotionTarget # ""
       THEN /\ ppc' = AfterStep("verify", promotionTarget \notin PromotionLabels)
            /\ UNCHANGED promotionTarget
       ELSE /\ promotionTarget' \in PromotionLabels
            /\ ppc' = AfterStep("verify", FALSE)
    /\ UNCHANGED <<promoted, wsLabels, wsPresent, wsBefore, fault, labelPayloads, dataFile,
                   incrementDocs>>
    /\ UNCHANGED outsidePromotion

\* jiraClient.updateIssue(issueKey, payload) with the new labels
PromotionSendLabels ==
    /\ ppc = "labels"
    /\ ppc' = AfterStep("labels", fault = "labels")
    /\ labelPayloads' =
          IF fault = "labels" THEN labelPayloads
          ELSE Append(labelPayloads,
                      LabelsSent(PropertiesWith(promoted, newLabels(wsLabels, promotionTarget))))
    /\ UNCHANGED <<promoted, wsLabels, wsPresent, wsBefore, promotionTarget, fault, dataFile,
                   incrementDocs>>
    /\ UNCHANGED outsidePromotion

\* dataService.fetchSingleIssue(issueKey)
PromotionFetch ==
    /\ ppc = "fetch"
    /\ ppc' = AfterStep("fetch", fault = "fetch")
    /\ dataFile' = IF fault = "fetch" THEN dataFile ELSE <<promoted>>
    /\ UNCHANGED <<promoted, wsLabels, wsPresent, wsBefore, promotionTarget, fault,
                   labelPayloads, incrementDocs>>
    /\ UNCHANGED outsidePromotion

\* processor.processSingleIssue(issueKey)
PromotionProcess ==
    /\ ppc = "process"
    /\ LET threw == dataFile = <<>> \/ fault = "process"
       IN  /\ ppc' = AfterStep("process", threw)
           /\ incrementDocs' = IF threw THEN incrementDocs
                               ELSE incrementDocs \cup {processSingleIssue(dataFile[1])}
    /\ UNCHANGED <<promoted, wsLabels, wsPresent, wsBefore, promotionTarget, fault,
                   labelPayloads, dataFile>>
    /\ UNCHANGED outsidePromotion

\* fs.unlink(targetFile): a failure is caught and reported as a warning
PromotionUnlink ==
    /\ ppc = "unlink"
    /\ ppc' = AfterStep("unlink", FALSE)
    /\ wsPresent' = IF fault = "unlink" THEN wsPresent ELSE FALSE
    /\ UNCHANGED <<promoted, wsLabels, wsBefore, promotionTarget, fault, labelPayloads,
                   dataFile, incrementDocs>>
    /\ UNCHANGED outsidePromotion

PromotionNext ==
    \/ PromotionUpdateIssue
    \/ PromotionVerify
    \/ PromotionSendLabels
    \/ PromotionFetch
    \/ PromotionProcess
    \/ PromotionUnlink

SpecPromotion == PromotionInit /\ [][PromotionNext]_vars

\* the epic a child is linked to
ParentEpic(issue) == CHOOSE e \in {EpicP1, EpicTwin} : e.key = getEpicLink(issue)

\* the path at which processEpics places the document of the issue
BatchPath(issue) ==
    LET epic == IF issue.type = "Epic" THEN issue ELSE ParentEpic(issue)
    IN  <<determineCorrectComponent(epic), determineCorrectEpicDirectory(epic),
          DocName(issue.type, issue.key)>>

\* C26: the document processSingleIssue has written for an issue is at the path at which
\* processEpics places the document of that issue
C26_SingleIssuePathIsBatchPath ==
    ppc \in {"unlink", "done"} => incrementDocs = {BatchPath(promoted)}

\* the labels of the last update Jira accepted
LastPayload == labelPayloads[Len(labelPayloads)]

\* how often the list holds the label
Occurrences(list, label) == Cardinality({ i \in 1..Len(list) : list[i] = label })

C28_WorkspaceDocumentOutlivesFailure ==
    /\ (wsBefore /\ ~wsPresent)
          => /\ Len(labelPayloads) = 2
             /\ dataFile # <<>>
             /\ incrementDocs # {}
    /\ ppc = "failed" => wsPresent = wsBefore

\* a promotion has gone through every step and has removed the _workspace document
C28_Witness ==
    /\ ppc = "done"
    /\ wsBefore
    /\ ~wsPresent
    /\ incrementDocs # {}

=============================================================================
